---------------------------- MODULE Spec2Model ----------------------------
(***************************************************************************)
(* A model of the MoE calculators: the shape parser and parameter          *)
(* aggregator of paramcalc.js and the speed estimator of script.js.        *)
(*                                                                         *)
(* Text is a sequence of characters, each character a one-element token.   *)
(* JavaScript numbers are modelled as exact fractions n/d extended with    *)
(* the IEEE special values: 1/0 is Infinity, -1/0 is -Infinity and 0/0 is  *)
(* NaN.  Rounding of doubles and the sign of zero are not modelled.        *)
(***************************************************************************)
EXTENDS Integers, Sequences, FiniteSets, TLC

VARIABLES
    pc,      \* position of the modelled run: "ready" (inputs drawn) or "done"
    src,     \* sumShapes: what the texts were written from (see InitShapes)
    text,    \* sumShapes: first text
    textB,   \* sumShapes: second text
    sums,    \* sumShapes: the results for text, textB and their two joins
    input,   \* computeResults: the input record
    r,       \* computeResults: the returned record
    explanation,  \* the rows of the explanation box (renderExplanation)
    fields,  \* speed form: the values of its fields
    out,     \* speed form: the results area (what calculate() rendered)
    selects, \* speed form: the values of the model and GPU preset selects
    kvTyped, \* speed form: what the user last typed into the KV cache field,
             \* and whether Custom was selected since
    events,  \* the number of user events on the page so far
    lastEvent,    \* the last event handled
    page,    \* parameter form: its fields and what its result boxes show
    timers,  \* parameter form: the timers set by the debounced render
    burst    \* parameter form: the time since the last input or change
             \* event, and what happened to the timers since

shapeVars == <<src, text, textB, sums>>

computeVars == <<input, r, explanation>>

speedVars == <<fields, out, selects, kvTyped>>

formVars == <<page, timers, burst>>

vars == <<pc, shapeVars, computeVars, speedVars, events, lastEvent, formVars>>

\* The variables a run does not use keep these values
NoShapes ==
    /\ src = <<>> /\ text = <<>> /\ textB = <<>>
    /\ sums = <<>>

NoCompute == input = <<>> /\ r = <<>> /\ explanation = <<>>

NoSpeed == fields = <<>> /\ out = <<>> /\ selects = <<>> /\ kvTyped = <<>>

NoEvents == events = 0 /\ lastEvent = <<>>

NoForm == page = <<>> /\ timers = <<>> /\ burst = <<>>

---------------------------------------------------------------------------
(* Characters.  Those that have no printable ASCII form get a name.        *)

SP     == " "
NBSP   == "U+00A0"
NNBSP  == "U+202F"
THINSP == "U+2009"
LF     == "LF"
CR     == "CR"

Digits == {"0", "1", "2", "3", "4", "5", "6", "7", "8", "9"}

DigitVal(c) ==
    CASE c = "0" -> 0 [] c = "1" -> 1 [] c = "2" -> 2 [] c = "3" -> 3
      [] c = "4" -> 4 [] c = "5" -> 5 [] c = "6" -> 6 [] c = "7" -> 7
      [] c = "8" -> 8 [] c = "9" -> 9

\* The characters of the model's alphabet that the regular expression class
\* \s and String.prototype.trim treat as white space.
WhiteSpace == {SP, NBSP, NNBSP, THINSP, LF, CR}

\* The characters `.' does not match in a regular expression.
LineTerminators == {LF, CR}

\* The value of a property that is absent from a record (JavaScript undefined).
Undefined == <<"undefined">>

\* !text for a text or undefined
Falsy(s) == s = Undefined \/ s = <<>>

---------------------------------------------------------------------------
(* Numbers.                                                                *)

RECURSIVE Gcd(_, _)
Gcd(a, b) == IF b = 0 THEN a ELSE Gcd(b, a % b)

Abs(x) == IF x < 0 THEN -x ELSE x

Sign(x) == IF x < 0 THEN -1 ELSE IF x > 0 THEN 1 ELSE 0

\* The number n/d in lowest terms, d >= 0.
Frac(n, d) ==
    IF d = 0 THEN [n |-> Sign(n), d |-> 0]
    ELSE LET g == Gcd(Abs(n), Abs(d))
             s == IF d < 0 THEN -1 ELSE 1
         IN  [n |-> s * (n \div g), d |-> s * (d \div g)]

N(i) == [n |-> i, d |-> 1]

NaN      == [n |-> 0, d |-> 0]
Infinity == [n |-> 1, d |-> 0]

IsNaN(x)    == x.d = 0 /\ x.n = 0
IsFinite(x) == x.d # 0
IsInf(x)    == x.d = 0 /\ x.n # 0

Neg(x) == [n |-> -x.n, d |-> x.d]

Add(x, y) ==
    IF IsNaN(x) \/ IsNaN(y) THEN NaN
    ELSE IF IsInf(x) /\ IsInf(y) THEN (IF x.n = y.n THEN x ELSE NaN)
    ELSE IF IsInf(x) THEN x
    ELSE IF IsInf(y) THEN y
    ELSE IF x.d = 1 /\ y.d = 1 THEN N(x.n + y.n)
    ELSE LET g == Gcd(x.d, y.d)
         IN  Frac(x.n * (y.d \div g) + y.n * (x.d \div g), (x.d \div g) * y.d)

Sub(x, y) == Add(x, Neg(y))

Mul(x, y) ==
    IF IsNaN(x) \/ IsNaN(y) THEN NaN
    ELSE IF IsInf(x) \/ IsInf(y)
         THEN (IF x.n = 0 \/ y.n = 0 THEN NaN
               ELSE [n |-> Sign(x.n) * Sign(y.n), d |-> 0])
    ELSE IF x.d = 1 /\ y.d = 1 THEN N(x.n * y.n)
    ELSE LET g1 == Gcd(Abs(x.n), y.d)
             g2 == Gcd(Abs(y.n), x.d)
         IN  Frac((x.n \div g1) * (y.n \div g2), (x.d \div g2) * (y.d \div g1))

\* x / y of JavaScript: x / 0 is an infinity, 0 / 0 and inf / inf are NaN.
Div(x, y) ==
    IF IsNaN(x) \/ IsNaN(y) THEN NaN
    ELSE IF IsInf(y) THEN (IF IsInf(x) THEN NaN ELSE N(0))
    ELSE IF IsInf(x) THEN [n |-> x.n * (IF y.n < 0 THEN -1 ELSE 1), d |-> 0]
    ELSE IF y.n = 0 THEN [n |-> Sign(x.n), d |-> 0]
    ELSE Mul(x, Frac(y.d, y.n))

\* x < y, x > y, x <= y of JavaScript: false when either side is NaN.
Lt(x, y) ==
    /\ ~IsNaN(x) /\ ~IsNaN(y)
    /\ IF IsInf(x) \/ IsInf(y)
       THEN (IF IsInf(x) /\ IsInf(y) THEN x.n < y.n
             ELSE IF IsInf(x) THEN x.n < 0 ELSE y.n > 0)
       ELSE x.n * y.d < y.n * x.d

Gt(x, y) == Lt(y, x)

Le(x, y) == ~IsNaN(x) /\ ~IsNaN(y) /\ ~Lt(y, x)

\* Math.max and Math.min of two numbers
Max(x, y) == IF IsNaN(x) \/ IsNaN(y) THEN NaN ELSE IF Lt(x, y) THEN y ELSE x

Min(x, y) == IF IsNaN(x) \/ IsNaN(y) THEN NaN ELSE IF Lt(y, x) THEN y ELSE x

\* v || 0 for a number v: 0 and NaN are falsy
OrZero(v) == IF IsNaN(v) \/ v = N(0) THEN N(0) ELSE v

---------------------------------------------------------------------------
(* Strings.                                                                *)

RECURSIVE Filter(_, _)
\* s without the characters of the set drop
Filter(s, drop) ==
    IF s = <<>> THEN <<>>
    ELSE IF Head(s) \in drop THEN Filter(Tail(s), drop)
    ELSE <<Head(s)>> \o Filter(Tail(s), drop)

RECURSIVE TrimStart(_)
TrimStart(s) ==
    IF s # <<>> /\ Head(s) \in WhiteSpace THEN TrimStart(Tail(s)) ELSE s

RECURSIVE TrimEnd(_)
TrimEnd(s) ==
    IF s # <<>> /\ s[Len(s)] \in WhiteSpace
    THEN TrimEnd(SubSeq(s, 1, Len(s) - 1)) ELSE s

\* String.prototype.trim
Trim(s) == TrimEnd(TrimStart(s))

\* The least index i >= from with s[i] in set, or 0
IndexOf(s, set, from) ==
    LET hits == {i \in from..Len(s) : s[i] \in set}
    IN  IF hits = {} THEN 0 ELSE CHOOSE i \in hits : \A j \in hits : i <= j

\* The index after the longest run of white space that starts at index i
RECURSIVE SkipWs(_, _)
SkipWs(s, i) ==
    IF i <= Len(s) /\ s[i] \in WhiteSpace THEN SkipWs(s, i + 1) ELSE i

RECURSIVE DigitsValue(_, _)
\* The value of the digit string s appended to the digits already read (acc)
DigitsValue(s, acc) ==
    IF s = <<>> THEN acc ELSE DigitsValue(Tail(s), 10 * acc + DigitVal(Head(s)))

\* The longest prefix of s from index i made of digits: the index after it
RECURSIVE SkipDigits(_, _)
SkipDigits(s, i) ==
    IF i <= Len(s) /\ s[i] \in Digits THEN SkipDigits(s, i + 1) ELSE i

\* parseInt(s, 10): leading white space, an optional sign, then the longest
\* run of digits; NaN when there is no digit there.
parseInt(s) ==
    LET t  == TrimStart(s)
        sg == IF t # <<>> /\ Head(t) = "-" THEN -1 ELSE 1
        u  == IF t # <<>> /\ Head(t) \in {"-", "+"} THEN Tail(t) ELSE t
        e  == SkipDigits(u, 1)
    IN  IF e = 1 THEN NaN ELSE N(sg * DigitsValue(SubSeq(u, 1, e - 1), 0))

---------------------------------------------------------------------------
(* The shape parser (paramcalc.js).                                        *)

\* normalizeNumStr stripping only the ASCII space and the underscore
normalizeNumStr_AsciiOnly(s) == Filter(Filter(s, {SP, "_"}), {",", "'"})

\* .replace(/[   \s_]/g, '').replace(/[,']/g, '')
normalizeNumStr(s) ==
    Filter(Filter(s, {NBSP, NNBSP, THINSP, "_"} \cup WhiteSpace), {",", "'"})

\* Where a match of /\s*,\s*/ that starts at index q ends (the index after
\* it), or 0 when there is no match at q.
CommaMatchEnd(s, q) ==
    LET w == SkipWs(s, q)
    IN  IF w <= Len(s) /\ s[w] = "," THEN SkipWs(s, w + 1) ELSE 0

RECURSIVE SplitFrom(_, _, _)
\* String.prototype.split with the separator /\s*,\s*/: p is the start of
\* the current piece, q the position where a separator is tried next.
SplitFrom(s, p, q) ==
    IF q > Len(s) THEN <<SubSeq(s, p, Len(s))>>
    ELSE LET e == CommaMatchEnd(s, q)
         IN  IF e = 0 THEN SplitFrom(s, p, q + 1)
             ELSE <<SubSeq(s, p, q - 1)>> \o SplitFrom(s, e, e)

\* content.split(/\s*,\s*/)
SplitDims(s) == SplitFrom(s, 1, 1)

\* The dimension a token of a group stands for (the callback of .map)
DimOf(d) ==
    LET t == normalizeNumStr(d)
        v == IF t # <<>> THEN parseInt(t) ELSE NaN
    IN  IF IsFinite(v) THEN v ELSE N(0)

RECURSIVE Product(_)
\* dims.reduce((a, b) => a * b, 1) over the tokens that are not empty
Product(tokens) ==
    IF tokens = <<>> THEN N(1)
    ELSE IF Head(tokens) = <<>> THEN Product(Tail(tokens))
    ELSE Mul(DimOf(Head(tokens)), Product(Tail(tokens)))

\* group.replace(/^[^\[]*\[/, ''): the text after the first "["
AfterOpen(group) ==
    LET i == IndexOf(group, {"["}, 1)
    IN  IF i = 0 THEN group ELSE SubSeq(group, i + 1, Len(group))

\* s.replace(/\].*$/, ''): the text before the first "]" that no line
\* terminator follows
BeforeClose(s) ==
    LET hits == {i \in 1..Len(s) :
                    s[i] = "]" /\ \A j \in (i + 1)..Len(s) : s[j] \notin LineTerminators}
    IN  IF hits = {} THEN s
        ELSE SubSeq(s, 1, (CHOOSE i \in hits : \A j \in hits : i <= j) - 1)

\* parseShapeGroup keeping only the first dimension of each group
parseShapeGroup_FirstDim(group) ==
    LET tokens == SplitDims(BeforeClose(AfterOpen(group)))
    IN  IF tokens[1] = <<>> THEN N(0) ELSE DimOf(tokens[1])

parseShapeGroup(group) ==
    LET content == BeforeClose(AfterOpen(group))
        tokens  == SplitDims(content)
    IN  IF \A i \in 1..Len(tokens) : tokens[i] = <<>> THEN N(0)
        ELSE Product(tokens)

RECURSIVE SplitLinesFrom(_, _, _)
\* String(text).split(/\r?\n/): p is the start of the current line
SplitLinesFrom(s, p, q) ==
    IF q > Len(s) THEN <<SubSeq(s, p, Len(s))>>
    ELSE IF s[q] = LF
         THEN <<SubSeq(s, p, q - 1)>> \o SplitLinesFrom(s, q + 1, q + 1)
    ELSE IF s[q] = CR /\ q < Len(s) /\ s[q + 1] = LF
         THEN <<SubSeq(s, p, q - 1)>> \o SplitLinesFrom(s, q + 2, q + 2)
    ELSE SplitLinesFrom(s, p, q + 1)

SplitLines(s) == SplitLinesFrom(s, 1, 1)

RECURSIVE MatchGroupsFrom(_, _)
\* line.match(/\[[^\]]*\]/g) from index i on: the matches, left to right
\* (the empty sequence stands for null)
MatchGroupsFrom(line, i) ==
    LET open  == IndexOf(line, {"["}, i)
        close == IF open = 0 THEN 0 ELSE IndexOf(line, {"]"}, open + 1)
    IN  IF close = 0 THEN <<>>
        ELSE <<SubSeq(line, open, close)>> \o MatchGroupsFrom(line, close + 1)

MatchGroups(line) == MatchGroupsFrom(line, 1)

RECURSIVE SumGroups(_)
\* for (const g of groups) total += parseShapeGroup(g)
SumGroups(groups) ==
    IF groups = <<>> THEN N(0)
    ELSE Add(parseShapeGroup(Head(groups)), SumGroups(Tail(groups)))

\* What one line of the text adds to the total (the body of the for loop)
LineSum(rawLine) ==
    LET line   == Trim(rawLine)
        groups == MatchGroups(line)
    IN  IF line = <<>> THEN N(0)
        ELSE IF groups # <<>> THEN SumGroups(groups)
        ELSE parseShapeGroup(<<"[">> \o line \o <<"]">>)

RECURSIVE SumLines(_)
SumLines(lines) ==
    IF lines = <<>> THEN N(0)
    ELSE Add(LineSum(Head(lines)), SumLines(Tail(lines)))

sumShapes(txt) ==
    IF Falsy(txt) THEN N(0) ELSE SumLines(SplitLines(txt))

---------------------------------------------------------------------------
(* The parameter aggregator (paramcalc.js, computeResults).                *)

\* parseInt(s || '0', 10) || 0 for a count field s
CountOf(s) == OrZero(parseInt(IF Falsy(s) THEN <<"0">> ELSE s))

\* input.shared_expert_scope || 'per_layer' ("" stands for a missing scope)
ScopeOf(s) == IF s = "" THEN "per_layer" ELSE s

\* sharedPerLayer dividing by moeLayers without looking at it
sharedPerLayer_Unguarded(hasShared, sharedScope, sharedExpertParams, moeLayers) ==
    IF hasShared
    THEN (IF sharedScope = "per_layer" THEN sharedExpertParams
          ELSE Div(sharedExpertParams, moeLayers))
    ELSE N(0)

sharedPerLayer(hasShared, sharedScope, sharedExpertParams, moeLayers) ==
    IF hasShared
    THEN (IF sharedScope = "per_layer" THEN sharedExpertParams
          ELSE (IF Gt(moeLayers, N(0)) THEN Div(sharedExpertParams, moeLayers) ELSE N(0)))
    ELSE N(0)

\* totalParams leaving out the norms before the first layer
totalParams_NoPreFirst(embedCount, preFirstCount, denseTotal, moeTotal) ==
    Add(Add(embedCount, denseTotal), moeTotal)

totalParams(embedCount, preFirstCount, denseTotal, moeTotal) ==
    Add(Add(Add(embedCount, preFirstCount), denseTotal), moeTotal)

\* activeExpertsClamped with the upper limit forgotten
activeExpertsClamped_NoUpper(activeExperts, expertsPer) == Max(N(0), activeExperts)

\* Math.max(0, Math.min(activeExperts, expertsPer))
activeExpertsClamped(activeExperts, expertsPer) ==
    Max(N(0), Min(activeExperts, expertsPer))

expertsActivePerLayer(expertsIncludeDim, expertsPer, mExpertsInput, clamped) ==
    IF expertsIncludeDim
    THEN (IF Gt(expertsPer, N(0)) THEN Mul(mExpertsInput, Div(clamped, expertsPer)) ELSE N(0))
    ELSE Mul(mExpertsInput, clamped)

\* The percentage dividing by totalActive without looking at it
Pct_Unguarded(part, totalActive) == Div(Mul(N(100), part), totalActive)

\* totalActive > 0 ? (100 * part / totalActive) : 0
Pct(part, totalActive) ==
    IF Gt(totalActive, N(0)) THEN Div(Mul(N(100), part), totalActive) ELSE N(0)

\* The one element of a set of one element.  Binding a value computed once,
\* as x in {F(x) : x \in {v}}, is how a const of the source is modelled where
\* it is read many times.
Only(S) == CHOOSE x \in S : TRUE

\* computeResults, first part: the counts, the flags and the sum of every
\* shape text (the consts read from input)
Parsed(in) ==
    LET hasShared == in.has_shared_expert
    IN  [denseLayers        |-> CountOf(in.dense_layers),
         moeLayers          |-> CountOf(in.moe_layers),
         expertsPer         |-> CountOf(in.experts_per_layer),
         activeExperts      |-> CountOf(in.active_experts),
         expertsIncludeDim  |-> in.experts_include_dim,
         hasShared          |-> hasShared,
         sharedScope        |-> ScopeOf(in.shared_expert_scope),
         embedCount         |-> sumShapes(in.embedding_shapes),
         preFirstCount      |-> sumShapes(in.pre_first_norms),
         dNorms             |-> sumShapes(in.dense_norms),
         dAttn              |-> sumShapes(in.dense_attn),
         dFfn               |-> sumShapes(in.dense_ffn),
         mAttn              |-> sumShapes(in.moe_attn),
         mNormsTrans        |-> sumShapes(in.moe_transitional),
         mSharedFfn         |-> sumShapes(in.moe_shared_ffn),
         mExpertsInput      |-> sumShapes(in.moe_experts),
         sharedExpertParams |->
             IF hasShared THEN sumShapes(in.shared_expert_tensors) ELSE N(0)]

\* computeResults, second part: the per-layer counts and the totals
Totals(c) ==
    LET dPerLayer         == Add(Add(c.dNorms, c.dAttn), c.dFfn)
        sharedPL          ==
            sharedPerLayer(c.hasShared, c.sharedScope, c.sharedExpertParams, c.moeLayers)
        mAlwaysPerLayer   == Add(Add(Add(c.mNormsTrans, c.mAttn), c.mSharedFfn), sharedPL)
        denseTotal        == Mul(c.denseLayers, dPerLayer)
        expertsPerLayerTotal ==
            IF c.expertsIncludeDim THEN c.mExpertsInput
            ELSE Mul(c.mExpertsInput, c.expertsPer)
        moeExpertTotal    == Mul(c.moeLayers, expertsPerLayerTotal)
        sharedExpertTotal ==
            IF c.hasShared
            THEN (IF c.sharedScope = "per_layer" THEN Mul(c.moeLayers, c.sharedExpertParams)
                  ELSE c.sharedExpertParams)
            ELSE N(0)
        moeTotal          == Add(Mul(c.moeLayers, mAlwaysPerLayer), moeExpertTotal)
        denseActive       == Add(Add(c.embedCount, c.preFirstCount), denseTotal)
        clamped           == activeExpertsClamped(c.activeExperts, c.expertsPer)
        expertsActivePL   ==
            expertsActivePerLayer(c.expertsIncludeDim, c.expertsPer, c.mExpertsInput, clamped)
        moeActive         == Mul(c.moeLayers, Add(mAlwaysPerLayer, expertsActivePL))
        moeAlwaysTotal    == Mul(c.moeLayers, mAlwaysPerLayer)
    IN  [dPerLayer |-> dPerLayer, sharedPerLayer |-> sharedPL,
         mAlwaysPerLayer |-> mAlwaysPerLayer,
         denseTotal |-> denseTotal, expertsPerLayerTotal |-> expertsPerLayerTotal,
         moeExpertTotal |-> moeExpertTotal, sharedExpertTotal |-> sharedExpertTotal,
         moeTotal |-> moeTotal,
         totalParams |-> totalParams(c.embedCount, c.preFirstCount, denseTotal, moeTotal),
         denseActive |-> denseActive, activeExpertsClamped |-> clamped,
         expertsActivePerLayer |-> expertsActivePL, moeActive |-> moeActive,
         totalActive |-> Add(denseActive, moeActive),
         moeInactivePerToken |->
             Mul(c.moeLayers, Max(N(0), Sub(expertsPerLayerTotal, expertsActivePL))),
         totalMlp |->
             Add(Add(Mul(c.denseLayers, c.dFfn),
                     Mul(c.moeLayers, Add(c.mSharedFfn, expertsPerLayerTotal))),
                 sharedExpertTotal),
         totalAttn |-> Add(Mul(c.denseLayers, c.dAttn), Mul(c.moeLayers, c.mAttn)),
         moeAlwaysTotal |-> moeAlwaysTotal,
         totalAlwaysActive |-> Add(denseActive, moeAlwaysTotal),
         moeExpertsOnly |-> Max(N(0), Sub(moeActive, moeAlwaysTotal))]

\* computeResults, last part: the percentages and the derived display value
Shares(c, t) ==
    [denseActivePct  |-> Pct(t.denseActive, t.totalActive),
     moeActivePct    |-> Pct(t.moeActive, t.totalActive),
     alwaysActivePct |-> Pct(t.totalAlwaysActive, t.totalActive),
     moeExpertsPct   |-> Pct(t.moeExpertsOnly, t.totalActive),
     totalLayersComputed |-> Add(c.denseLayers, c.moeLayers)]

\* The record computeResults returns
computeResults(in) ==
    Only({Only({c @@ t @@ Shares(c, t) : t \in {Totals(c)}}) : c \in {Parsed(in)}})

RECURSIVE Pow10(_)
Pow10(k) == IF k = 0 THEN 1 ELSE 10 * Pow10(k - 1)

\* x rounded to k decimals, halves away from zero (k = 3 for toLocaleString,
\* k = 4 for toFixed(4)); the infinities are left as they are
RoundTo(x, k) ==
    IF ~IsFinite(x) THEN x
    ELSE LET s == Pow10(k)
             m == Abs(x.n) * s
             q == (2 * m + x.d) \div (2 * x.d)
         IN  Frac(Sign(x.n) * q, s)

\* fmt(n) = (n || 0).toLocaleString('en-US'): the number the text shows
fmt(x) == RoundTo(OrZero(x), 3)

\* x.toFixed(4): the number the text shows
toFixed4(x) == RoundTo(x, 4)

\* One row of the explanation: its code, the value it shows and the lettered
\* identity printed beside it (written here with x for the multiplication
\* sign, / for the division sign and - for the minus sign)
renderRow(code, value, lettersEq) ==
    [code |-> code, value |-> value, letters |-> lettersEq]

\* The rows of renderExplanation(r), in order
renderExplanation(res) ==
    LET perLayer == res.sharedScope = "per_layer"
        acLetters ==
            IF res.hasShared
            THEN (IF perLayer THEN "N + O + P + M = AC" ELSE "N + O + P + M/C = AC")
            ELSE "N + O + P = AC"
        expertsActiveExplainLetters ==
            IF res.expertsIncludeDim
            THEN (IF Gt(res.expertsPer, N(0)) THEN "Q x (min(J, I) / I)" ELSE "Q x 0")
            ELSE "Q x min(J, I)"
        sharedTotalLetters2 ==
            IF res.hasShared THEN (IF perLayer THEN " + C x M" ELSE " + M") ELSE ""
    IN  << renderRow("AA", fmt(res.dPerLayer), "F + G + H = AA"),
           renderRow("AB", fmt(res.denseTotal), "AA x B = AB"),
           renderRow("AC", fmt(res.mAlwaysPerLayer), acLetters),
           renderRow("AD", fmt(res.expertsPerLayerTotal),
                     IF res.expertsIncludeDim THEN "Q = AD" ELSE "Q x I = AD"),
           renderRow("AE", fmt(res.moeTotal), "C x (AC + AD) = AE"),
           renderRow("AF", fmt(res.moeActive),
                     "C x (AC + " \o expertsActiveExplainLetters \o ") = AF"),
           renderRow("AG", fmt(res.moeAlwaysTotal), "C x AC = AG"),
           renderRow("AH", fmt(res.moeInactivePerToken),
                     IF res.expertsIncludeDim
                     THEN "C x Q x (1 - (min(J, I) / I)) = AH"
                     ELSE "C x Q x (I - min(J, I)) = AH"),
           renderRow("AI", fmt(res.denseActive), "D + E + AB = AI"),
           renderRow("AJ", fmt(res.totalParams), "AI + AE = AJ"),
           renderRow("AK", fmt(res.totalActive), "AI + AF = AK"),
           renderRow("AL", fmt(res.totalAlwaysActive), "AI + AG = AL"),
           renderRow("AM", toFixed4(res.alwaysActivePct), "AL / AK x 100 = AM"),
           renderRow("AN", toFixed4(res.moeExpertsPct), "(AF - AG) / AK x 100 = AN"),
           renderRow("AO", fmt(res.totalMlp),
                     "B x H + C x P + C x AD" \o sharedTotalLetters2 \o " = AO"),
           renderRow("AP", fmt(res.totalAttn), "B x G + C x N = AP"),
           renderRow("AQ", fmt(Mul(res.moeLayers, res.expertsActivePerLayer)),
                     IF res.expertsIncludeDim
                     THEN "C x Q x (min(J, I) / I) = AQ" ELSE "C x Q x min(J, I) = AQ"),
           renderRow("AR", fmt(res.moeExpertTotal),
                     IF res.expertsIncludeDim THEN "C x Q = AR" ELSE "C x Q x I = AR") >>

---------------------------------------------------------------------------
(* The speed estimator (script.js, calculate).                             *)

\* parseFloat(s) for a string of the model's alphabet: leading white space,
\* an optional sign, digits, an optional point and digits; NaN when no digit
\* is there.  (Exponents and the word Infinity are not in the alphabet.)
parseFloat(s) ==
    LET t    == TrimStart(s)
        sg   == IF t # <<>> /\ Head(t) = "-" THEN -1 ELSE 1
        u    == IF t # <<>> /\ Head(t) \in {"-", "+"} THEN Tail(t) ELSE t
        e    == SkipDigits(u, 1)
        f    == IF e <= Len(u) /\ u[e] = "." THEN SkipDigits(u, e + 1) ELSE e
        ip   == DigitsValue(SubSeq(u, 1, e - 1), 0)
        nfr  == IF f > e THEN f - e - 1 ELSE 0
        fp   == IF nfr > 0 THEN DigitsValue(SubSeq(u, e + 1, f - 1), 0) ELSE 0
    IN  IF e = 1 /\ nfr = 0 THEN NaN
        ELSE Frac(sg * (ip * Pow10(nfr) + fp), Pow10(nfr))

\* 1e9: bytes per GB
GB == 1000000000

\* The fields calculate() requires to be numbers that are not negative
RequiredFields ==
    {"gpu1_vram", "gpu1_bw", "gpu2_vram", "gpu2_bw", "system_bw",
     "total_params", "dense_params", "moe_params"}

\* [...].some(v => isNaN(v) || v < 0)
Invalid(f) ==
    \E k \in RequiredFields : IsNaN(parseFloat(f[k])) \/ Lt(parseFloat(f[k]), N(0))

\* denseLoadMs giving no time to a path without bandwidth
denseLoadMs_ZeroWhenNoBandwidth(denseKvGB, gpu1Bw) ==
    IF Gt(gpu1Bw, N(0)) THEN Mul(Div(denseKvGB, gpu1Bw), N(1000)) ELSE N(0)

denseLoadMs(denseKvGB, gpu1Bw) ==
    IF Gt(gpu1Bw, N(0)) THEN Mul(Div(denseKvGB, gpu1Bw), N(1000)) ELSE Infinity

\* if (moeTotalGB > 0 && gpu2Vram > 0) moeShare = Math.min(1, gpu2Vram / moeTotalGB)
moeShare(moeTotalGB, gpu2Vram) ==
    IF Gt(moeTotalGB, N(0)) /\ Gt(gpu2Vram, N(0))
    THEN Min(N(1), Div(gpu2Vram, moeTotalGB)) ELSE N(0)

\* gpu2MoeMs leaving a path with nothing to load out of the total
gpu2MoeMs_ExcludedWhenNothingToLoad(share, activeMoeSizeGB, gpu2Bw) ==
    IF Gt(gpu2Bw, N(0))
    THEN Mul(Div(Mul(share, activeMoeSizeGB), gpu2Bw), N(1000))
    ELSE IF Mul(share, activeMoeSizeGB) = N(0) THEN N(0) ELSE Infinity

gpu2MoeMs(share, activeMoeSizeGB, gpu2Bw) ==
    IF Gt(gpu2Bw, N(0))
    THEN Mul(Div(Mul(share, activeMoeSizeGB), gpu2Bw), N(1000)) ELSE Infinity

systemMoeMs(systemShare, activeMoeSizeGB, systemBw) ==
    IF Gt(systemBw, N(0))
    THEN Mul(Div(Mul(systemShare, activeMoeSizeGB), systemBw), N(1000)) ELSE Infinity

\* totalMsPerToken leaving out the share loaded from system memory
totalMsPerToken_NoSystem(dense, gpu2, system) == Add(dense, gpu2)

totalMsPerToken(dense, gpu2, system) == Add(Add(dense, gpu2), system)

tokensPerSec(totalMs) ==
    IF Gt(totalMs, N(0)) THEN Div(N(1000), totalMs) ELSE N(0)

\* The values calculate() derives from the fields (the part after validation)
Derive(f) ==
    LET gpu1Vram        == parseFloat(f.gpu1_vram)
        gpu1Bw          == parseFloat(f.gpu1_bw)
        gpu2Vram        == parseFloat(f.gpu2_vram)
        gpu2Bw          == parseFloat(f.gpu2_bw)
        systemBw        == parseFloat(f.system_bw)
        totalP          == parseFloat(f.total_params)
        denseParams     == parseFloat(f.dense_params)
        activeMoeParams == parseFloat(f.moe_params)
        kvCache         == OrZero(parseFloat(f.kv_cache))
        quantBits       == parseInt(f.quantization)
        totalMoeParams  == Max(Sub(totalP, denseParams), N(0))
        bytesPerParam   == Div(quantBits, N(8))
        denseSizeGB     == Div(Mul(denseParams, bytesPerParam), N(GB))
        denseKvGB       == Add(denseSizeGB, kvCache)
        moeTotalGB      == Div(Mul(totalMoeParams, bytesPerParam), N(GB))
        share           == moeShare(moeTotalGB, gpu2Vram)
        activeMoeSizeGB == Div(Mul(activeMoeParams, bytesPerParam), N(GB))
        systemShare     == Sub(N(1), share)
        dense           == denseLoadMs(denseKvGB, gpu1Bw)
        gpu2            == gpu2MoeMs(share, activeMoeSizeGB, gpu2Bw)
        system          == systemMoeMs(systemShare, activeMoeSizeGB, systemBw)
        totalMs         == totalMsPerToken(dense, gpu2, system)
    IN  [gpu1Bw |-> gpu1Bw, gpu2Bw |-> gpu2Bw, systemBw |-> systemBw,
         denseKvGB |-> denseKvGB, fitsOnGpu1 |-> Le(denseKvGB, gpu1Vram),
         moeTotalGB |-> moeTotalGB, moeShare |-> share, systemShare |-> systemShare,
         activeMoeSizeGB |-> activeMoeSizeGB,
         denseLoadMs |-> dense, gpu2MoeMs |-> gpu2, systemMoeMs |-> system,
         totalMsPerToken |-> totalMs, tokensPerSec |-> tokensPerSec(totalMs)]

\* The results area before any calculation: hidden and empty
NoResults == [hidden |-> TRUE, html |-> "", rows |-> <<>>]

\* The results area after calculate(): the validation message, or the rows
\* of results with the values they show; visible in both cases
calculate(f) ==
    IF Invalid(f)
    THEN [hidden |-> FALSE, html |-> "info-text", rows |-> <<>>]
    ELSE [hidden |-> FALSE, html |-> "results", rows |-> <<Derive(f)>>]

---------------------------------------------------------------------------
(* Running sumShapes.  The texts are drawn in one of three ways:           *)
(*   "shaped"  both texts are written from lists of lines, each line a     *)
(*             list of groups, each group a list of dimensions;            *)
(*   "raw"     text is any string over RawAlphabet of at most MaxRawLen    *)
(*             characters;                                                 *)
(*   "grouped" text holds one group whose dimensions have their digits     *)
(*             grouped in threes with a separator, textB holds the same    *)
(*             dimensions written plainly.                                 *)

MaxDim    == 2
MaxRawLen == 4

RECURSIVE ToDigits(_)
\* The decimal digits of a natural number
ToDigits(n) ==
    LET last == <<CHOOSE c \in Digits : DigitVal(c) = n % 10>>
    IN  IF n < 10 THEN last ELSE ToDigits(n \div 10) \o last

RECURSIVE JoinWith(_, _)
\* The strings of the list parts with sep between them
JoinWith(parts, sep) ==
    IF parts = <<>> THEN <<>>
    ELSE IF Len(parts) = 1 THEN parts[1]
    ELSE parts[1] \o sep \o JoinWith(Tail(parts), sep)

\* "[d1,d2,...]" with comma between the dimensions
WriteGroup(dims, comma) ==
    <<"[">> \o JoinWith([i \in 1..Len(dims) |-> ToDigits(dims[i])], comma) \o <<"]">>

\* The text of a list of lines: the groups of a line side by side (gap
\* between them), the lines joined by a newline
WriteLines(lines, comma, gap) ==
    JoinWith([i \in 1..Len(lines) |->
                 JoinWith([j \in 1..Len(lines[i]) |-> WriteGroup(lines[i][j], comma)], gap)],
             <<LF>>)

\* The digits of n in groups of three from the right, sep between the groups
RECURSIVE GroupThousands(_, _)
GroupThousands(digits, sep) ==
    IF Len(digits) <= 3 THEN digits
    ELSE GroupThousands(SubSeq(digits, 1, Len(digits) - 3), sep)
           \o <<sep>> \o SubSeq(digits, Len(digits) - 2, Len(digits))

\* Sequences over S of length lo..hi
SeqsOf(S, lo, hi) == UNION {[1..n -> S] : n \in lo..hi}

DimValues == (0..MaxDim) \cup {10 * MaxDim + 5}

GroupsOf == SeqsOf(DimValues, 1, 2)

\* A line holds zero, one or two groups
LinesOf == SeqsOf(GroupsOf, 0, 2)

\* The second text: up to two lines of at most one group each
SmallTexts == SeqsOf(SeqsOf(GroupsOf, 0, 1), 0, 1) \cup {<<<<>>, <<<<1, MaxDim>>>>>>}

\* The example "[2,3]\n[4]": its first line, and its second line as a text
ExampleLine  == <<<<2, 3>>>>
ExampleTextB == <<<<<<4>>>>>>

RawAlphabet == {"[", "]", ",", "1", "a", SP, LF}

RawTexts == SeqsOf(RawAlphabet, 0, MaxRawLen)

\* Dimensions of four to seven digits, as in the presets
BigDims == {1000, 7168, 129280, 1000000}

SmallDims == {7, 1000}

Separators == {NNBSP, NBSP, THINSP, SP, "_", "'", ","}

Idle == [a |-> N(0), b |-> N(0), ab |-> N(0), ba |-> N(0)]

InitShapes ==
    /\ pc = "ready"
    /\ sums = Idle
    /\ NoCompute /\ NoSpeed /\ NoEvents /\ NoForm
    /\ \/ \E la \in LinesOf \cup {ExampleLine}, lb \in SmallTexts \cup {ExampleTextB} :
            /\ src = [kind |-> "shaped", a |-> <<la>>, b |-> lb]
            /\ text = WriteLines(<<la>>, <<",">>, <<>>)
            /\ textB = WriteLines(lb, <<",", SP>>, <<SP>>)
       \/ \E t \in RawTexts :
            /\ src = [kind |-> "raw"]
            /\ text = t
            /\ textB = <<>>
       \/ \E d1 \in BigDims, d2 \in SmallDims, sep \in Separators :
            /\ src = [kind |-> "grouped", dims |-> <<d1, d2>>, sep |-> sep]
            /\ text = <<"[">> \o GroupThousands(ToDigits(d1), sep) \o <<",", SP>>
                        \o GroupThousands(ToDigits(d2), sep) \o <<"]">>
            /\ textB = WriteGroup(<<d1, d2>>, <<",", SP>>)

\* sumShapes is applied to each text and to the two texts joined by a newline
SumShapesCall ==
    /\ pc = "ready"
    /\ pc' = "done"
    /\ sums' = [a  |-> sumShapes(text),
                b  |-> sumShapes(textB),
                ab |-> sumShapes(text \o <<LF>> \o textB),
                ba |-> sumShapes(textB \o <<LF>> \o text)]
    /\ UNCHANGED <<formVars, src, text, textB, computeVars, speedVars, events, lastEvent>>

NextShapes == SumShapesCall

SpecShapes == InitShapes /\ [][NextShapes]_vars

---------------------------------------------------------------------------
(* Claims about sumShapes (checked under SpecShapes).                      *)

RECURSIVE ProductOf(_)
ProductOf(dims) == IF dims = <<>> THEN 1 ELSE Head(dims) * ProductOf(Tail(dims))

RECURSIVE SumOfGroups(_)
SumOfGroups(groups) ==
    IF groups = <<>> THEN 0 ELSE ProductOf(Head(groups)) + SumOfGroups(Tail(groups))

RECURSIVE SumOfProducts(_)
\* The sum, over all groups on all lines, of the product of the dimensions
SumOfProducts(lines) ==
    IF lines = <<>> THEN 0 ELSE SumOfGroups(Head(lines)) + SumOfProducts(Tail(lines))

ShapedDone == pc = "done" /\ src.kind = "shaped"

\* C1: for a text written from lines of bracketed groups of comma-separated
\* non-negative integers (each group holding at least one), sumShapes is the
\* sum over all groups of the product of the group's dimensions; the result
\* for two texts joined by a newline is the sum of their results, in either
\* order of the two.
C1_SumOfProducts ==
    ShapedDone =>
        /\ sums.a = N(SumOfProducts(src.a))
        /\ sums.b = N(SumOfProducts(src.b))
        /\ sums.ab = N(SumOfProducts(src.a \o src.b))
        /\ sums.ab = Add(sums.a, sums.b)
        /\ sums.ba = sums.ab

\* The example of the specification, "[2,3]\n[4]", has been summed to 10
C1_Witness ==
    /\ ShapedDone
    /\ text = <<"[", "2", ",", "3", "]">>
    /\ textB = <<"[", "4", "]">>
    /\ sums.ab = N(10)

\* The text is one group "[...]" with no further bracket or line break inside
IsOneGroup(t) ==
    /\ Len(t) >= 2
    /\ t[1] = "[" /\ t[Len(t)] = "]"
    /\ \A i \in 2..(Len(t) - 1) : t[i] \notin {"[", "]", LF, CR}

\* The group's dimension list is empty, or one of its tokens holds a character
\* that no integer holds (a letter)
IsMalformedGroup(t) ==
    IsOneGroup(t) /\ (Len(t) = 2 \/ \E i \in 2..(Len(t) - 1) : t[i] = "a")

\* C2: sumShapes degrades to zero: the empty text gives 0, and a group whose
\* dimension list is empty or holds a token that is not a valid integer
\* contributes 0.
C2_MalformedIsZero ==
    (pc = "done" /\ src.kind = "raw") =>
        /\ text = <<>> => sums.a = N(0)
        /\ IsMalformedGroup(text) => sums.a = N(0)

GroupedDone == pc = "done" /\ src.kind = "grouped"

\* C3 as stated: with any of the seven separators between the thousands, the
\* result is that of the same digits written without a separator.
C3_AnySeparator == GroupedDone => sums.a = sums.b

\* C3, amended: with a narrow no-break space, no-break space, thin space,
\* ordinary space, underscore or apostrophe between the thousands of each
\* dimension, sumShapes gives the result of the same digits written without
\* a separator, the product of the dimensions.  (A comma always separates
\* dimensions.)
C3_SeparatorsButComma ==
    (GroupedDone /\ src.sep # ",") =>
        /\ sums.a = sums.b
        /\ sums.a = N(src.dims[1] * src.dims[2])

\* "[129 280, 7]" written with narrow no-break spaces has been summed
C3_Witness ==
    /\ GroupedDone
    /\ src.sep = NNBSP
    /\ src.dims = <<129280, 7>>
    /\ NNBSP \in {text[i] : i \in 1..Len(text)}
    /\ sums.a = N(904960)

---------------------------------------------------------------------------
(* Running computeResults.  The input record is drawn from three families: *)
(*   the presets' kind of form (every shape text a well-formed one of its  *)
(*   own) with every combination of counts 0..MaxCount, and with one count *)
(*   field missing, empty, not a number or negative;                       *)
(*   the same form with one shape text missing, empty or malformed;        *)
(*   the blank form (every shape text empty, or every one missing), and    *)
(*   the blank form with only the shared expert's tensors filled in.       *)

MaxCount == 2

CountFields == {"dense_layers", "moe_layers", "experts_per_layer", "active_experts"}

ShapeFields ==
    {"embedding_shapes", "pre_first_norms", "dense_norms", "dense_attn", "dense_ffn",
     "moe_attn", "moe_transitional", "moe_shared_ffn", "moe_experts",
     "shared_expert_tensors"}

\* A well-formed text for every shape field, no two with the same sum
BaseShapes ==
    [embedding_shapes      |-> <<"[", "2", ",", SP, "3", "]">>,
     pre_first_norms       |-> <<"[", "1", "]">>,
     dense_norms           |-> <<"[", "2", "]">>,
     dense_attn            |-> <<"[", "3", "]">>,
     dense_ffn             |-> <<"[", "5", "]">>,
     moe_attn              |-> <<"[", "7", "]">>,
     moe_transitional      |-> <<"[", "2", "]", LF, "[", "2", "]">>,
     moe_shared_ffn        |-> <<"[", "8", "]">>,
     moe_experts           |-> <<"[", "3", ",", SP, "3", "]">>,
     shared_expert_tensors |-> <<"[", "1", "0", "]">>]

\* A shape text that is missing, empty, or malformed
BadShapes == {Undefined, <<>>, <<"[", "a", "]">>, <<"[", "1", "a", "]">>}

\* A count that is missing, empty, not a number, or negative
BadCounts == {Undefined, <<>>, <<"x">>, <<"2", "x">>, <<"-", "1">>}

NumericCounts == {ToDigits(i) : i \in 0..MaxCount}

Flags ==
    [experts_include_dim : BOOLEAN, has_shared_expert : BOOLEAN,
     shared_expert_scope : {"per_layer", "total", ""}]

Inputs ==
    {c @@ f @@ BaseShapes : c \in [CountFields -> NumericCounts], f \in Flags}
    \cup {(k :> b) @@ c @@ f @@ BaseShapes :
             k \in CountFields, b \in BadCounts,
             c \in [CountFields -> NumericCounts], f \in Flags}
    \cup {[k \in CountFields |-> n] @@ f @@ (k2 :> b) @@ BaseShapes :
             n \in NumericCounts, f \in Flags, k2 \in ShapeFields, b \in BadShapes}
    \cup {c @@ f @@ [k \in ShapeFields |-> b] :
             c \in [CountFields -> NumericCounts], f \in Flags, b \in {Undefined, <<>>}}
    \cup {c @@ f @@ ("shared_expert_tensors" :> BaseShapes.shared_expert_tensors)
               @@ [k \in ShapeFields |-> b] :
             c \in [CountFields -> NumericCounts], f \in Flags, b \in {Undefined, <<>>}}

InitCompute ==
    /\ pc = "ready"
    /\ input \in Inputs
    /\ r = <<>>
    /\ explanation = <<>>
    /\ NoShapes /\ NoSpeed /\ NoEvents /\ NoForm

ComputeResultsCall ==
    /\ pc = "ready"
    /\ pc' = "done"
    /\ r' = computeResults(input)
    /\ UNCHANGED <<formVars, shapeVars, input, explanation, speedVars, events, lastEvent>>

\* The explanation is rendered from the returned record
RenderExplanationCall ==
    /\ pc = "done"
    /\ pc' = "rendered"
    /\ explanation' = renderExplanation(r)
    /\ UNCHANGED <<formVars, shapeVars, input, r, speedVars, events, lastEvent>>

NextCompute == ComputeResultsCall \/ RenderExplanationCall

SpecCompute == InitCompute /\ [][NextCompute]_vars

---------------------------------------------------------------------------
(* Claims about computeResults (checked under SpecCompute).                *)

Done == pc = "done"

Zero == N(0)

\* C4: identity AJ: totalParams = denseActive + moeTotal, where
\* denseActive = embedCount + preFirstCount + denseTotal.
C4_IdentityAJ ==
    Done =>
        /\ r.totalParams = Add(r.denseActive, r.moeTotal)
        /\ r.denseActive = Add(Add(r.embedCount, r.preFirstCount), r.denseTotal)

\* A result with dense and MoE parts, the MoE part holding a fractional
\* per-layer share of the shared expert
C4_Witness ==
    /\ Done
    /\ Gt(r.denseActive, Zero) /\ Gt(r.preFirstCount, Zero)
    /\ Gt(r.moeTotal, Zero) /\ r.sharedPerLayer.d > 1
    /\ r.totalParams = Add(r.denseActive, r.moeTotal)

\* The result without the echo of the active_experts input
Derived(res) == [res EXCEPT !.activeExperts = Zero]

\* C5: with active_experts above experts_per_layer the result is that of the
\* same record with active_experts equal to experts_per_layer, in every
\* derived total and percentage.
C5_Clamp ==
    (Done /\ Gt(r.activeExperts, r.expertsPer)) =>
        Derived(r) =
            Derived(computeResults([input EXCEPT !.active_experts = input.experts_per_layer]))

\* More active experts asked for than a layer has, and experts that count
C5_Witness ==
    /\ Done
    /\ Gt(r.activeExperts, r.expertsPer) /\ Gt(r.expertsPer, Zero)
    /\ Gt(r.moeLayers, Zero) /\ Gt(r.expertsActivePerLayer, Zero)
    /\ r.activeExpertsClamped = r.expertsPer

\* C6 as stated: for every input record 0 <= activeExpertsClamped <= expertsPer.
C6_ClampRange ==
    Done => Le(Zero, r.activeExpertsClamped) /\ Le(r.activeExpertsClamped, r.expertsPer)

\* C6, amended: activeExpertsClamped is never negative, and for every input
\* record whose experts_per_layer is not negative it is at most expertsPer
\* (it is the smaller of activeExperts and expertsPer when that is positive,
\* and 0 otherwise).
C6_ClampRangeNonNegative ==
    Done =>
        /\ Le(Zero, r.activeExpertsClamped)
        /\ Le(Zero, r.expertsPer) => Le(r.activeExpertsClamped, r.expertsPer)
        /\ r.activeExpertsClamped =
              (IF Gt(Min(r.activeExperts, r.expertsPer), Zero)
               THEN Min(r.activeExperts, r.expertsPer) ELSE Zero)

\* Two active experts asked of one expert per layer: clamped to one
C6_Witness ==
    /\ Done
    /\ r.expertsPer = N(1) /\ r.activeExperts = N(2)
    /\ r.activeExpertsClamped = N(1)

\* The fields of the result that are numbers
NumberFields ==
    {"denseLayers", "moeLayers", "expertsPer", "activeExperts",
     "embedCount", "preFirstCount", "dNorms", "dAttn", "dFfn", "dPerLayer",
     "mAttn", "mNormsTrans", "mSharedFfn", "mExpertsInput",
     "sharedExpertParams", "sharedPerLayer", "mAlwaysPerLayer",
     "denseTotal", "expertsPerLayerTotal", "moeExpertTotal", "sharedExpertTotal",
     "moeTotal", "totalParams", "denseActive", "activeExpertsClamped",
     "expertsActivePerLayer", "moeActive", "totalActive",
     "denseActivePct", "moeActivePct", "moeInactivePerToken", "totalMlp", "totalAttn",
     "moeAlwaysTotal", "totalAlwaysActive", "alwaysActivePct", "moeExpertsOnly",
     "moeExpertsPct", "totalLayersComputed"}

\* C7: a zero divisor yields zero and no value of the result is NaN or
\* infinite: with a shared-expert scope other than per_layer and moe_layers = 0
\* the per-layer shared share is 0; with experts_include_dim and
\* experts_per_layer = 0 the active expert params per layer are 0; with
\* totalActive = 0 every percentage is 0.
C7_ZeroDivisor ==
    Done =>
        /\ \A f \in NumberFields : IsFinite(r[f])
        /\ (r.sharedScope # "per_layer" /\ r.moeLayers = Zero) => r.sharedPerLayer = Zero
        /\ (r.expertsIncludeDim /\ r.expertsPer = Zero) => r.expertsActivePerLayer = Zero
        /\ r.totalActive = Zero =>
              /\ r.denseActivePct = Zero /\ r.moeActivePct = Zero
              /\ r.alwaysActivePct = Zero /\ r.moeExpertsPct = Zero

\* All three zero divisors at once: a shared expert of total scope over no MoE
\* layer, expert tensors that include the expert dimension with no expert, and
\* no active parameter
C7_Witness ==
    /\ Done
    /\ r.hasShared /\ r.sharedScope = "total" /\ r.moeLayers = Zero
    /\ Gt(r.sharedExpertParams, Zero) /\ r.sharedPerLayer = Zero
    /\ r.expertsIncludeDim /\ r.expertsPer = Zero
    /\ r.totalActive = Zero /\ r.alwaysActivePct = Zero

\* A count is numeric when it is digits, with or without a sign
IsNumeric(s) ==
    LET t == Trim(s)
        u == IF t # <<>> /\ Head(t) \in {"-", "+"} THEN Tail(t) ELSE t
    IN  u # <<>> /\ \A i \in 1..Len(u) : u[i] \in Digits

\* A shape text is malformed when it holds a letter
IsMalformed(s) == \E i \in 1..Len(s) : s[i] = "a"

\* The input with every missing, empty or non-numeric count set to "0" and
\* every missing or malformed shape text emptied
Zeroed(in) ==
    [k \in DOMAIN in |->
        IF k \in CountFields
        THEN (IF Falsy(in[k]) \/ ~IsNumeric(in[k]) THEN <<"0">> ELSE in[k])
        ELSE IF k \in ShapeFields
        THEN (IF Falsy(in[k]) \/ IsMalformed(in[k]) THEN <<>> ELSE in[k])
        ELSE in[k]]

\* C8: the result for a record with missing, empty or non-numeric counts and
\* missing or malformed shape texts is the result with those counts set to 0
\* and those shape texts contributing 0.
C8_DefaultsToZero == Done => r = computeResults(Zeroed(input))

---------------------------------------------------------------------------
(* Running calculate().  The fields first hold every combination of a few  *)
(* values (bandwidths 0..MaxBw GB/s), or the values of BaseFields with one  *)
(* required field, or the KV cache field, missing, not a number, a number   *)
(* followed by a letter, or negative.  The button is clicked; then the user *)
(* may retype a field (at most MaxEdits times) and click again.             *)

MaxBw == 2

MaxEdits == 1

Bandwidths == {ToDigits(i) : i \in 0..MaxBw}

ValidFields ==
    [gpu1_vram : {<<"0">>, <<"1">>},
     gpu1_bw : Bandwidths,
     gpu2_vram : {<<"0">>, <<"1">>, <<"0", ".", "5">>},
     gpu2_bw : Bandwidths,
     system_bw : Bandwidths,
     total_params : {<<"0">>, ToDigits(GB)},
     dense_params : {<<"0">>, ToDigits(GB \div 2)},
     moe_params : {<<"0">>, ToDigits(GB \div 2)},
     kv_cache : {<<>>, <<"1">>},
     quantization : {<<"4">>, <<"8">>}]

BaseFields ==
    [gpu1_vram |-> <<"1">>, gpu1_bw |-> <<"2">>, gpu2_vram |-> <<"1">>,
     gpu2_bw |-> <<"1">>, system_bw |-> <<"1">>, total_params |-> ToDigits(GB),
     dense_params |-> ToDigits(GB \div 2), moe_params |-> ToDigits(GB \div 2),
     kv_cache |-> <<>>, quantization |-> <<"8">>]

\* The number inputs of the form: the required fields and the KV cache
NumericFields == RequiredFields \cup {"kv_cache"}

\* A field that is missing, not a number, a number followed by a letter, or
\* negative
BadFields == {<<>>, <<"a">>, <<"1", "a">>, <<"-", "1">>}

\* The fields the user retypes between two clicks, and what is typed
EditedFields == {"gpu1_bw", "kv_cache"}

EditValues == {<<>>, <<"-", "1">>}

InitSpeed ==
    /\ pc = "ready"
    /\ \/ fields \in ValidFields
       \/ \E k \in NumericFields, b \in BadFields : fields = (k :> b) @@ BaseFields
    /\ out = NoResults
    /\ selects = <<>> /\ kvTyped = <<>>
    /\ NoShapes /\ NoCompute /\ NoEvents /\ NoForm

\* A click on the calculate button
CalculateClick ==
    /\ pc = "ready"
    /\ pc' = "done"
    /\ out' = calculate(fields)
    /\ UNCHANGED <<formVars, shapeVars, computeVars, fields, selects, kvTyped, events, lastEvent>>

\* The user retypes one field after a calculation
EditField ==
    /\ pc = "done"
    /\ events < MaxEdits
    /\ \E k \in EditedFields, b \in EditValues :
          /\ fields[k] # b
          /\ fields' = [fields EXCEPT ![k] = b]
    /\ pc' = "ready"
    /\ events' = events + 1
    /\ UNCHANGED <<formVars, shapeVars, computeVars, out, selects, kvTyped, lastEvent>>

NextSpeed == CalculateClick \/ EditField

SpecSpeed == InitSpeed /\ [][NextSpeed]_vars

---------------------------------------------------------------------------
(* Claims about calculate() (checked under SpecSpeed).                     *)

\* calculate() has run on valid fields and rendered result rows
Calculated == pc = "done" /\ out.html = "results"

\* size (GB) / bandwidth (GB/s) x 1000 ms
LoadTime(sizeGB, bw) == Mul(Div(sizeGB, bw), N(1000))

\* The load time of a path: as LoadTime with a positive bandwidth, infinite
\* with none
PathTime(sizeGB, bw) == IF Gt(bw, Zero) THEN LoadTime(sizeGB, bw) ELSE Infinity

\* C9 as stated, for the inputs whose three bandwidths are positive: the
\* total time per token is the sum of dense+KV size / GPU 1 bandwidth, MoE
\* share x active MoE size / GPU 2 bandwidth and (1 - MoE share) x active MoE
\* size / system bandwidth, each x 1000 ms, and tokensPerSec = 1000 /
\* totalMsPerToken.
C9_SerialSum ==
    Calculated =>
        LET v == out.rows[1]
        IN  (Gt(v.gpu1Bw, Zero) /\ Gt(v.gpu2Bw, Zero) /\ Gt(v.systemBw, Zero)) =>
              /\ v.totalMsPerToken =
                    Add(Add(LoadTime(v.denseKvGB, v.gpu1Bw),
                            LoadTime(Mul(v.moeShare, v.activeMoeSizeGB), v.gpu2Bw)),
                        LoadTime(Mul(Sub(N(1), v.moeShare), v.activeMoeSizeGB), v.systemBw))
              /\ v.tokensPerSec = Div(N(1000), v.totalMsPerToken)

\* C9, amended: for every valid input (no field negative, the KV cache
\* included) the total time per token is the sum of
\* the three serial terms, each term being size / bandwidth x 1000 ms when its
\* bandwidth is positive and infinite when its bandwidth is 0; tokensPerSec is
\* 1000 / totalMsPerToken when the total is positive and 0 when the total is 0.
C9_SerialSumGuarded ==
    (Calculated /\ ~Lt(parseFloat(fields.kv_cache), Zero)) =>
        LET v == out.rows[1]
        IN  /\ v.denseLoadMs = PathTime(v.denseKvGB, v.gpu1Bw)
            /\ v.gpu2MoeMs = PathTime(Mul(v.moeShare, v.activeMoeSizeGB), v.gpu2Bw)
            /\ v.systemMoeMs =
                  PathTime(Mul(Sub(N(1), v.moeShare), v.activeMoeSizeGB), v.systemBw)
            /\ v.totalMsPerToken = Add(Add(v.denseLoadMs, v.gpu2MoeMs), v.systemMoeMs)
            /\ v.tokensPerSec =
                  (IF v.totalMsPerToken = Zero THEN Zero
                   ELSE Div(N(1000), v.totalMsPerToken))

\* A calculation in which all three paths carry load at a positive bandwidth
C9_Witness ==
    /\ Calculated
    /\ LET v == out.rows[1]
       IN  /\ Gt(v.moeShare, Zero) /\ Lt(v.moeShare, N(1))
           /\ Gt(v.denseLoadMs, Zero) /\ Gt(v.gpu2MoeMs, Zero) /\ Gt(v.systemMoeMs, Zero)
           /\ IsFinite(v.totalMsPerToken)
           /\ v.tokensPerSec = Div(N(1000), v.totalMsPerToken)

\* C10: with valid fields the calculation is not aborted; a path whose
\* bandwidth is 0 has an infinite load time, and then the total time per token
\* is infinite and tokens per second is 0.
C10_ZeroBandwidth ==
    /\ (pc = "done" /\ ~Invalid(fields)) => (out.html = "results" /\ ~out.hidden)
    /\ Calculated =>
          LET v == out.rows[1]
          IN  /\ v.gpu1Bw = Zero => v.denseLoadMs = Infinity
              /\ v.gpu2Bw = Zero => v.gpu2MoeMs = Infinity
              /\ v.systemBw = Zero => v.systemMoeMs = Infinity
              /\ (v.gpu1Bw = Zero \/ v.gpu2Bw = Zero \/ v.systemBw = Zero) =>
                    (v.totalMsPerToken = Infinity /\ v.tokensPerSec = Zero)

\* GPU 2 alone has no bandwidth, and the results are shown
C10_Witness ==
    /\ Calculated /\ ~out.hidden
    /\ LET v == out.rows[1]
       IN  /\ v.gpu2Bw = Zero /\ Gt(v.gpu1Bw, Zero) /\ Gt(v.systemBw, Zero)
           /\ v.gpu2MoeMs = Infinity /\ IsFinite(v.denseLoadMs)
           /\ v.totalMsPerToken = Infinity /\ v.tokensPerSec = Zero

\* The three paths of a calculation: the bandwidth of each, its coefficient
\* (the size loaded over it, in GB) and its load time
Paths(v) ==
    [gpu1   |-> [bw |-> v.gpu1Bw, coefficient |-> v.denseKvGB, ms |-> v.denseLoadMs],
     gpu2   |-> [bw |-> v.gpu2Bw, coefficient |-> Mul(v.moeShare, v.activeMoeSizeGB),
                 ms |-> v.gpu2MoeMs],
     system |-> [bw |-> v.systemBw,
                 coefficient |-> Mul(v.systemShare, v.activeMoeSizeGB),
                 ms |-> v.systemMoeMs]]

PathNames == {"gpu1", "gpu2", "system"}

\* C11 as stated: a path with zero bandwidth has infinite time on that path,
\* and (the other paths having bandwidth) the total is finite, the path being
\* left out of it, when and only when the path's coefficient is zero.
C11_ExcludedWhenZeroCoefficient ==
    Calculated =>
        LET v == out.rows[1]
        IN  \A p \in PathNames :
              (Paths(v)[p].bw = Zero
                 /\ \A q \in PathNames \ {p} : Gt(Paths(v)[q].bw, Zero)) =>
                 /\ Paths(v)[p].ms = Infinity
                 /\ IsFinite(v.totalMsPerToken) <=> Paths(v)[p].coefficient = Zero

\* C11, amended: a path with zero bandwidth has infinite time on that path
\* whatever its coefficient, zero included, and is never left out of the
\* total: the total is finite exactly when all three bandwidths are positive.
C11_NeverExcluded ==
    Calculated =>
        LET v == out.rows[1]
        IN  /\ \A p \in PathNames :
                 Paths(v)[p].bw = Zero =>
                    (Paths(v)[p].ms = Infinity /\ v.totalMsPerToken = Infinity)
            /\ IsFinite(v.totalMsPerToken) <=>
                  \A p \in PathNames : Gt(Paths(v)[p].bw, Zero)

\* GPU 2 alone has no bandwidth and nothing is loaded over it
C11_Witness ==
    /\ Calculated
    /\ LET v == out.rows[1]
       IN  /\ v.gpu2Bw = Zero /\ Gt(v.gpu1Bw, Zero) /\ Gt(v.systemBw, Zero)
           /\ Mul(v.moeShare, v.activeMoeSizeGB) = Zero
           /\ Gt(v.activeMoeSizeGB, Zero)
           /\ v.gpu2MoeMs = Infinity /\ v.totalMsPerToken = Infinity

\* A numeric field is missing or invalid: its text is empty or does not start
\* with a number (it parses to NaN), or it is negative.  (A KV cache field
\* that is empty or not a number, which calculate() takes as 0, is not
\* counted.)
MissingOrInvalid(f, k) ==
    \/ k # "kv_cache" /\ IsNaN(parseFloat(f[k]))
    \/ Lt(parseFloat(f[k]), Zero)

\* The results area holding the validation message alone
ValidationMessage == [hidden |-> FALSE, html |-> "info-text", rows |-> <<>>]

\* C12 as stated: when calculate() has run with a numeric field missing or
\* invalid (not a number, or negative), the results area holds exactly the
\* validation message, is visible, and has no result rows, whatever an
\* earlier calculation rendered.
C12_InvalidAborts ==
    (pc = "done" /\ \E k \in NumericFields : MissingOrInvalid(fields, k)) =>
        out = ValidationMessage


---------------------------------------------------------------------------
(* Claims about the explanation (checked under SpecCompute).               *)

\* The explanation of the returned record has been rendered
Rendered == pc = "rendered"

\* The row of the explanation with the given code
RowOf(code) ==
    explanation[CHOOSE i \in DOMAIN explanation : explanation[i].code = code]

\* min(J, I)
MinJI(res) == Min(res.activeExperts, res.expertsPer)

\* The right-hand side of the lettered identity printed in a row, computed
\* from the lettered inputs (B = dense layers, C = MoE layers, D..H, M..Q =
\* the counts of the shape fields, I = experts per layer, J = active experts)
\* and from the values of the rows it names
Identity(res, row) ==
    LET B == res.denseLayers
        C == res.moeLayers
        M == res.sharedExpertParams
        Q == res.mExpertsInput
        NOP == Add(Add(res.mAttn, res.mNormsTrans), res.mSharedFfn)
        BHCPCAD == Add(Add(Mul(B, res.dFfn), Mul(C, res.mSharedFfn)),
                       Mul(C, res.expertsPerLayerTotal))
    IN  CASE row.letters = "F + G + H = AA" -> Add(Add(res.dNorms, res.dAttn), res.dFfn)
          [] row.letters = "AA x B = AB" -> Mul(res.dPerLayer, B)
          [] row.letters = "N + O + P = AC" -> NOP
          [] row.letters = "N + O + P + M = AC" -> Add(NOP, M)
          [] row.letters = "N + O + P + M/C = AC" -> Add(NOP, Div(M, C))
          [] row.letters = "C x (AC + AD) = AE" ->
                Mul(C, Add(res.mAlwaysPerLayer, res.expertsPerLayerTotal))
          [] row.letters = "C x AC = AG" -> Mul(C, res.mAlwaysPerLayer)
          [] row.letters = "C x Q x (I - min(J, I)) = AH" ->
                Mul(Mul(C, Q), Sub(res.expertsPer, MinJI(res)))
          [] row.letters = "C x Q x (1 - (min(J, I) / I)) = AH" ->
                Mul(Mul(C, Q), Sub(N(1), Div(MinJI(res), res.expertsPer)))
          [] row.letters = "D + E + AB = AI" ->
                Add(Add(res.embedCount, res.preFirstCount), res.denseTotal)
          [] row.letters = "AI + AF = AK" -> Add(res.denseActive, res.moeActive)
          [] row.letters = "AI + AG = AL" -> Add(res.denseActive, res.moeAlwaysTotal)
          [] row.letters = "B x H + C x P + C x AD = AO" -> BHCPCAD
          [] row.letters = "B x H + C x P + C x AD + C x M = AO" -> Add(BHCPCAD, Mul(C, M))
          [] row.letters = "B x H + C x P + C x AD + M = AO" -> Add(BHCPCAD, M)
          [] row.letters = "B x G + C x N = AP" ->
                Add(Mul(B, res.dAttn), Mul(C, res.mAttn))

\* The rows the claim names
IdentityRows == {"AA", "AB", "AC", "AE", "AG", "AH", "AI", "AK", "AL", "AO", "AP"}

\* C15 as stated: for every input record, the value shown in each of the rows
\* AA, AB, AC, AE, AG, AH, AI, AK, AL, AO and AP is the value of the lettered
\* identity printed beside it (both as fmt shows them).
C15_LetteredIdentities ==
    Rendered =>
        \A code \in IdentityRows :
            RowOf(code).value = fmt(Identity(r, RowOf(code)))

---------------------------------------------------------------------------
(* The presets of the speed form (script.js): prefillModel, gpuPresets and  *)
(* handleGpuPresetChange.                                                   *)

\* null, the VRAM and bandwidth of the custom entry
Null == <<"null">>

\* The parameter counts the named branches of prefillModel store, as the
\* text the fields then hold
ModelPresets ==
    <<
       [model |-> "kimi",
        total_params |-> <<"1", "0", "2", "6", "4", "7", "0", "7", "3", "1", "0", "5", "6">>,
        dense_params |-> <<"1", "1", "7", "2", "2", "7", "7", "5", "8", "5", "6">>,
        moe_params |-> <<"2", "1", "1", "4", "0", "5", "8", "2", "4", "0", "0">>],
       [model |-> "qwen",
        total_params |-> <<"2", "3", "5", "0", "4", "4", "3", "5", "1", "4", "8", "8">>,
        dense_params |-> <<"7", "9", "4", "7", "9", "5", "1", "6", "1", "6">>,
        moe_params |-> <<"1", "4", "1", "9", "3", "5", "2", "4", "7", "3", "6">>],
       [model |-> "deepseek",
        total_params |-> <<"6", "7", "1", "0", "2", "6", "4", "1", "9", "2", "0", "0">>,
        dense_params |-> <<"1", "4", "5", "6", "3", "3", "1", "7", "2", "4", "8">>,
        moe_params |-> <<"2", "2", "9", "8", "8", "9", "8", "0", "2", "2", "4">>],
       [model |-> "gpt-oss-120b",
        total_params |-> <<"1", "1", "6", "8", "2", "9", "1", "5", "6", "6", "7", "2">>,
        dense_params |-> <<"1", "5", "4", "8", "4", "2", "4", "5", "1", "2">>,
        moe_params |-> <<"3", "5", "8", "4", "4", "2", "4", "9", "6", "0">>],
       [model |-> "glm-4.5-air",
        total_params |-> <<"1", "0", "6", "8", "5", "2", "2", "5", "1", "2", "6", "4">>,
        dense_params |-> <<"6", "3", "9", "3", "4", "2", "1", "8", "2", "4">>,
        moe_params |-> <<"7", "0", "3", "0", "7", "0", "7", "8", "4", "0">>]
    >>

\* The models that have a branch in prefillModel
NamedModels == {ModelPresets[i].model : i \in DOMAIN ModelPresets}

\* The branch of prefillModel for a named model
ModelPreset(model) ==
    ModelPresets[CHOOSE i \in DOMAIN ModelPresets : ModelPresets[i].model = model]

\* prefillModel that also clears the KV cache for a named model
prefillModel_ClearsKvCache(f, model) ==
    IF model \in NamedModels
    THEN [f EXCEPT !.total_params = ModelPreset(model).total_params,
                   !.dense_params = ModelPreset(model).dense_params,
                   !.moe_params = ModelPreset(model).moe_params,
                   !.kv_cache = <<>>]
    ELSE [f EXCEPT !.total_params = <<>>, !.dense_params = <<>>,
                   !.moe_params = <<>>, !.kv_cache = <<>>]

\* prefillModel(model): the fields after it ran on the fields f
prefillModel(f, model) ==
    IF model \in NamedModels
    THEN [f EXCEPT !.total_params = ModelPreset(model).total_params,
                   !.dense_params = ModelPreset(model).dense_params,
                   !.moe_params = ModelPreset(model).moe_params]
    ELSE [f EXCEPT !.total_params = <<>>, !.dense_params = <<>>,
                   !.moe_params = <<>>, !.kv_cache = <<>>]

gpuPresets ==
    <<
       [key |-> "custom", vram |-> Null, bw |-> Null],
       [key |-> "rtx3090", vram |-> 24, bw |-> 936],
       [key |-> "rtx4060ti", vram |-> 16, bw |-> 288],
       [key |-> "rtx4070", vram |-> 12, bw |-> 504],
       [key |-> "rtx4090", vram |-> 24, bw |-> 1008],
       [key |-> "rtx5090", vram |-> 32, bw |-> 1792],
       [key |-> "a6000", vram |-> 48, bw |-> 768],
       [key |-> "a5000", vram |-> 24, bw |-> 768],
       [key |-> "rtxpro6000", vram |-> 96, bw |-> 1792],
       [key |-> "p40", vram |-> 24, bw |-> 346],
       [key |-> "p100", vram |-> 16, bw |-> 732],
       [key |-> "a100", vram |-> 80, bw |-> 1940],
       [key |-> "h100", vram |-> 80, bw |-> 2000],
       [key |-> "b200", vram |-> 192, bw |-> 8200],
       [key |-> "radeonvii", vram |-> 16, bw |-> 1024],
       [key |-> "rx7900xtx", vram |-> 24, bw |-> 960],
       [key |-> "mi25", vram |-> 16, bw |-> 484],
       [key |-> "mi50", vram |-> 32, bw |-> 1024],
       [key |-> "mi60", vram |-> 32, bw |-> 1024],
       [key |-> "mi100", vram |-> 32, bw |-> 1230],
       [key |-> "mi210", vram |-> 64, bw |-> 1640],
       [key |-> "mi250", vram |-> 128, bw |-> 3280],
       [key |-> "arca770", vram |-> 16, bw |-> 560]
    >>

\* gpuPresets.find(p => p.key === selectedKey): its index, 0 when none
FindPreset(selectedKey) ==
    IF \E i \in DOMAIN gpuPresets : gpuPresets[i].key = selectedKey
    THEN CHOOSE i \in DOMAIN gpuPresets :
            /\ gpuPresets[i].key = selectedKey
            /\ \A j \in 1..(i - 1) : gpuPresets[j].key # selectedKey
    ELSE 0

\* The change handler clearing the fields when custom is selected
handleGpuPresetChange_CustomClears(f, selectedKey, vramInputId, bwInputId) ==
    LET i == FindPreset(selectedKey)
    IN  IF i = 0 THEN f
        ELSE IF gpuPresets[i].key # "custom"
        THEN [f EXCEPT ![vramInputId] = ToDigits(gpuPresets[i].vram),
                       ![bwInputId] = ToDigits(gpuPresets[i].bw)]
        ELSE [f EXCEPT ![vramInputId] = <<>>, ![bwInputId] = <<>>]

\* The change handler handleGpuPresetChange installs: the fields after it ran
\* with the select holding selectedKey
handleGpuPresetChange(f, selectedKey, vramInputId, bwInputId) ==
    LET i == FindPreset(selectedKey)
    IN  IF i = 0 THEN f
        ELSE IF gpuPresets[i].key # "custom"
        THEN [f EXCEPT ![vramInputId] = ToDigits(gpuPresets[i].vram),
                       ![bwInputId] = ToDigits(gpuPresets[i].bw)]
        ELSE f

---------------------------------------------------------------------------
(* Running the presets of the speed form.  After the page's handler ran     *)
(* (the model fields and the KV cache cleared, both GPU selects on custom)  *)
(* the user selects models and GPUs and types into fields, in any order.    *)

\* The options of the model select the user picks from: custom and three of
\* the named models (the first, the last and one between)
ModelOptions == {"custom", "kimi", "deepseek", "glm-4.5-air"}

\* The options of a GPU select the user picks from: custom, the first and
\* the last preset, and a value that is no preset's key
GpuOptions == {"custom", "rtx3090", "arca770", ""}

\* The GPU selects with the ids of the fields their handlers write
GpuSelects ==
    {[select |-> "gpu1-select", vram |-> "gpu1_vram", bw |-> "gpu1_bw"],
     [select |-> "gpu2-select", vram |-> "gpu2_vram", bw |-> "gpu2_bw"]}

\* The fields the user types into, and what is typed
TypedFields == {"kv_cache", "gpu1_vram", "moe_params"}

TypedValues == {<<>>, <<"7">>}

\* The state after the page's DOMContentLoaded handler
InitPresets ==
    /\ pc = "ready"
    /\ \E hw \in {<<>>, <<"2", "4">>} :
          fields = prefillModel([gpu1_vram |-> hw, gpu1_bw |-> hw, gpu2_vram |-> hw,
                                 gpu2_bw |-> hw, system_bw |-> hw,
                                 total_params |-> hw, dense_params |-> hw,
                                 moe_params |-> hw, kv_cache |-> hw,
                                 quantization |-> <<"8">>],
                                "custom")
    /\ out = NoResults
    /\ \E m \in {"custom", "kimi"} :
          selects = [model |-> m, gpu1 |-> "custom", gpu2 |-> "custom"]
    /\ kvTyped = [value |-> <<>>, custom |-> FALSE]
    /\ NoShapes /\ NoCompute /\ NoEvents /\ NoForm

\* A change of the model select
ModelSelectChange ==
    \E m \in ModelOptions :
        /\ m # selects.model
        /\ selects' = [selects EXCEPT !.model = m]
        /\ fields' = prefillModel(fields, m)
        /\ kvTyped' = IF m \in NamedModels THEN kvTyped
                      ELSE [kvTyped EXCEPT !.custom = TRUE]
        /\ lastEvent' = [kind |-> "model-select", value |-> m]
        /\ UNCHANGED <<formVars, pc, shapeVars, computeVars, out, events>>

\* A change of a GPU select
GpuSelectChange ==
    \E g \in GpuSelects, key \in GpuOptions :
        /\ LET which == IF g.select = "gpu1-select" THEN "gpu1" ELSE "gpu2"
           IN  /\ key # selects[which]
               /\ selects' = [selects EXCEPT ![which] = key]
        /\ fields' = handleGpuPresetChange(fields, key, g.vram, g.bw)
        /\ lastEvent' = [kind |-> g.select, value |-> key]
        /\ UNCHANGED <<formVars, pc, shapeVars, computeVars, out, kvTyped, events>>

\* The user types a value into a field
TypeField ==
    \E k \in TypedFields, v \in TypedValues :
        /\ fields[k] # v
        /\ fields' = [fields EXCEPT ![k] = v]
        /\ kvTyped' = IF k = "kv_cache" THEN [value |-> v, custom |-> FALSE]
                      ELSE kvTyped
        /\ lastEvent' = [kind |-> "type", value |-> k]
        /\ UNCHANGED <<formVars, pc, shapeVars, computeVars, out, selects, events>>

NextPresets == ModelSelectChange \/ GpuSelectChange \/ TypeField

SpecPresets == InitPresets /\ [][NextPresets]_vars

---------------------------------------------------------------------------
(* Claims about the presets of the speed form (checked under SpecPresets). *)

\* C19: selecting a named model sets the total, dense and active-MoE fields
\* to the preset's values and leaves the KV cache (and every other field) as
\* it was; selecting Custom clears those three fields and the KV cache; so as
\* long as Custom was not selected since the user last typed into the KV
\* cache field, that field holds what the user typed.
C19_ModelPresetKeepsKvCache ==
    /\ [][selects'.model # selects.model =>
            IF selects'.model \in NamedModels
            THEN fields' =
                    [fields EXCEPT
                        !.total_params = ModelPreset(selects'.model).total_params,
                        !.dense_params = ModelPreset(selects'.model).dense_params,
                        !.moe_params = ModelPreset(selects'.model).moe_params]
            ELSE fields' = [fields EXCEPT !.total_params = <<>>, !.dense_params = <<>>,
                                          !.moe_params = <<>>, !.kv_cache = <<>>]]_vars
    /\ [](selects # <<>> /\ ~kvTyped.custom => fields.kv_cache = kvTyped.value)

\* A named model was just selected after the user typed a KV cache size,
\* which the field still holds
C19_Witness ==
    /\ lastEvent # <<>> /\ lastEvent.kind = "model-select"
    /\ lastEvent.value = "deepseek"
    /\ fields.total_params = ModelPreset("deepseek").total_params
    /\ fields.moe_params = ModelPreset("deepseek").moe_params
    /\ kvTyped = [value |-> <<"7">>, custom |-> FALSE]
    /\ fields.kv_cache = <<"7">>

\* The preset a GPU select's value names, 0 when it names none
PresetOf(key) ==
    IF \E i \in DOMAIN gpuPresets : gpuPresets[i].key = key
    THEN CHOOSE i \in DOMAIN gpuPresets : gpuPresets[i].key = key
    ELSE 0

\* C20: selecting a GPU preset other than Custom overwrites that GPU's VRAM
\* and bandwidth fields with the preset's values; selecting Custom leaves them
\* unchanged; in both cases the other GPU's fields, the system bandwidth and
\* the model fields are unchanged.
C20_GpuPresetFrame ==
    [][\A g \in GpuSelects :
          LET which == IF g.select = "gpu1-select" THEN "gpu1" ELSE "gpu2"
              key   == selects'[which]
          IN  selects'[which] # selects[which] =>
                 IF PresetOf(key) # 0 /\ key # "custom"
                 THEN fields' =
                         [fields EXCEPT ![g.vram] = ToDigits(gpuPresets[PresetOf(key)].vram),
                                        ![g.bw] = ToDigits(gpuPresets[PresetOf(key)].bw)]
                 ELSE fields' = fields]_vars

\* GPU 2 was just set to the last preset, GPU 1 and the model fields holding
\* what was typed and selected before
C20_Witness ==
    /\ lastEvent # <<>> /\ lastEvent.kind = "gpu2-select"
    /\ lastEvent.value = "arca770"
    /\ fields.gpu2_vram = <<"1", "6">> /\ fields.gpu2_bw = <<"5", "6", "0">>
    /\ fields.gpu1_vram = <<"7">>
    /\ selects.model = "kimi" /\ fields.total_params = ModelPreset("kimi").total_params

---------------------------------------------------------------------------
(* The parameter form (paramcalc.js): getFormData, calculateAndRender,     *)
(* updateComputedTotalLayers, debounce and prefillParamModel.  A page is    *)
(* the form's fields and what the results and explanation boxes show.  The  *)
(* boxes show renderSummary and renderExplanation of computeResults(input), *)
(* a function of the record input that getFormData returned; the page       *)
(* keeps that record.                                                       *)

\* The text fields holding a count, with the default getFormData gives them
FormCountFields == {"total_layers"} \cup CountFields

\* getFormData reading moe_layers from an element that is not there
getFormData_NoMoeLayers(f) ==
    [k \in DOMAIN f |->
        IF k = "moe_layers" THEN <<"0">>
        ELSE IF k \in FormCountFields THEN (IF f[k] = <<>> THEN <<"0">> ELSE f[k])
        ELSE IF k = "shared_expert_scope" THEN (IF f[k] = "" THEN "per_layer" ELSE f[k])
        ELSE f[k]]

\* getFormData(): the record read from the fields f
getFormData(f) ==
    [k \in DOMAIN f |->
        IF k \in FormCountFields THEN (IF f[k] = <<>> THEN <<"0">> ELSE f[k])
        ELSE IF k = "shared_expert_scope" THEN (IF f[k] = "" THEN "per_layer" ELSE f[k])
        ELSE f[k]]

\* String(n) of an integer
StringOf(x) == IF x.n < 0 THEN <<"-">> \o ToDigits(-x.n) ELSE ToDigits(x.n)

\* updateComputedTotalLayers that leaves the MoE layers out
updateComputedTotalLayers_DenseOnly(f) ==
    [f EXCEPT !.total_layers = StringOf(CountOf(f.dense_layers))]

\* updateComputedTotalLayers(): the fields after it ran
updateComputedTotalLayers(f) ==
    [f EXCEPT !.total_layers =
                 StringOf(Add(CountOf(f.dense_layers), CountOf(f.moe_layers)))]

\* The boxes before any render: hidden
NothingShown == [hidden |-> TRUE, input |-> <<>>]

\* calculateAndRender(): the page after it ran
calculateAndRender(pg) ==
    LET in == getFormData(pg.form)
    IN  [form  |-> updateComputedTotalLayers(pg.form),
         shown |-> [hidden |-> FALSE, input |-> in]]

\* 250, the delay of the debounced calculateAndRender
DebounceMs == 250

\* The timers of the page: pending holds the time left (ms) of every timer
\* set and neither fired nor cleared, oldest first; t is the place in pending
\* of the timer the variable t of debounce names, 0 when t is null or names a
\* timer that fired
NoTimers == [t |-> 0, pending |-> <<>>]

\* clearTimeout(t)
clearTimeout(tm) ==
    IF tm.t = 0 THEN tm.pending
    ELSE SubSeq(tm.pending, 1, tm.t - 1) \o SubSeq(tm.pending, tm.t + 1, Len(tm.pending))

\* The debounced function without its clearTimeout
debouncedCalc_NoClear(tm) ==
    [pending |-> Append(tm.pending, DebounceMs), t |-> Len(tm.pending) + 1]

\* A call of the function debounce returned: clearTimeout(t); t = setTimeout(fn, ms)
debouncedCalc(tm) ==
    [pending |-> Append(clearTimeout(tm), DebounceMs), t |-> Len(clearTimeout(tm)) + 1]

\* One line of a preset's text: the group of its dimensions, plain or with
\* the digits in threes set apart by narrow no-break spaces
PlainLine(dims) == WriteGroup(dims, <<",", SP>>)

NarrowLine(dims) ==
    <<"[">> \o JoinWith([i \in 1..Len(dims) |-> GroupThousands(ToDigits(dims[i]), NNBSP)],
                        <<",", SP>>) \o <<"]">>

\* [...].join('\n')
Lines(ls) == JoinWith(ls, <<LF>>)

\* The values the branch 'kimi-k2' of prefillParamModel stores
PresetKimiK2 ==
    [dense_layers |-> <<"1">>,
     moe_layers |-> <<"6", "0">>,
     embedding_shapes |-> Lines(<<PlainLine(<<163840, 7168>>), PlainLine(<<163840, 7168>>)>>),
     pre_first_norms |-> Lines(<<PlainLine(<<7168>>)>>),
     dense_norms |-> Lines(<<PlainLine(<<7168>>), PlainLine(<<7168>>)>>),
     dense_attn |-> Lines(<<PlainLine(<<512>>), PlainLine(<<576, 7168>>),
                    PlainLine(<<5, 56>>), PlainLine(<<16384, 512>>),
                    PlainLine(<<128, 4>>), PlainLine(<<7168, 8192>>),
                    PlainLine(<<56, 64>>), PlainLine(<<1536>>),
                    PlainLine(<<1536, 7168>>), PlainLine(<<12, 56>>),
                    PlainLine(<<12288, 1536>>), PlainLine(<<96, 12>>),
                    PlainLine(<<56>>)>>),
     dense_ffn |-> Lines(<<PlainLine(<<7168, 18432>>), PlainLine(<<56, 144>>),
                    PlainLine(<<18432, 7168>>), PlainLine(<<144, 56>>),
                    PlainLine(<<18432, 7168>>), PlainLine(<<144, 56>>)>>),
     experts_per_layer |-> <<"3", "8", "4">>,
     active_experts |-> <<"8">>,
     has_shared_expert |-> TRUE,
     shared_expert_scope |-> "per_layer",
     shared_expert_tensors |-> Lines(<<PlainLine(<<7168, 2048>>), PlainLine(<<56, 16>>),
                    PlainLine(<<7168, 2048>>), PlainLine(<<56, 16>>),
                    PlainLine(<<7168, 2048>>), PlainLine(<<56, 16>>)>>),
     moe_attn |-> Lines(<<PlainLine(<<512>>), PlainLine(<<576, 7168>>),
                    PlainLine(<<5, 56>>), PlainLine(<<16384, 512>>),
                    PlainLine(<<128, 4>>), PlainLine(<<7168, 8192>>),
                    PlainLine(<<56, 64>>), PlainLine(<<1536>>),
                    PlainLine(<<1536, 7168>>), PlainLine(<<12, 56>>),
                    PlainLine(<<12288, 1536>>), PlainLine(<<96, 12>>),
                    PlainLine(<<56>>)>>),
     moe_transitional |-> Lines(<<PlainLine(<<7168>>), PlainLine(<<7168>>)>>),
     moe_shared_ffn |-> Lines(<<PlainLine(<<384>>), PlainLine(<<384, 7168>>)>>),
     moe_experts |-> Lines(<<PlainLine(<<7168, 2048>>), PlainLine(<<56, 16>>),
                    PlainLine(<<2048, 7168>>), PlainLine(<<16, 56>>),
                    PlainLine(<<2048, 7168>>), PlainLine(<<16, 56>>)>>),
     experts_include_dim |-> FALSE]

\* The values the branch 'glm-4.7' of prefillParamModel stores
PresetGlm47 ==
    [dense_layers |-> <<"3">>,
     moe_layers |-> <<"8", "9">>,
     embedding_shapes |-> Lines(<<PlainLine(<<151552, 5120>>), PlainLine(<<151552, 5120>>)>>),
     pre_first_norms |-> Lines(<<PlainLine(<<5120>>)>>),
     dense_norms |-> Lines(<<PlainLine(<<5120>>), PlainLine(<<5120>>),
                    PlainLine(<<128>>), PlainLine(<<128>>)>>),
     dense_attn |-> Lines(<<PlainLine(<<12288, 5120>>), PlainLine(<<12288>>),
                    PlainLine(<<1024, 5120>>), PlainLine(<<1024>>),
                    PlainLine(<<1024, 5120>>), PlainLine(<<1024>>),
                    PlainLine(<<5120, 12288>>)>>),
     dense_ffn |-> Lines(<<PlainLine(<<12288, 5120>>), PlainLine(<<12288, 5120>>),
                    PlainLine(<<5120, 12288>>)>>),
     experts_per_layer |-> <<"1", "6", "0">>,
     active_experts |-> <<"8">>,
     has_shared_expert |-> TRUE,
     shared_expert_scope |-> "per_layer",
     shared_expert_tensors |-> Lines(<<PlainLine(<<1536, 5120>>), PlainLine(<<1536, 5120>>),
                    PlainLine(<<5120, 1536>>)>>),
     moe_attn |-> Lines(<<PlainLine(<<12288, 5120>>), PlainLine(<<12288>>),
                    PlainLine(<<1024, 5120>>), PlainLine(<<1024>>),
                    PlainLine(<<1024, 5120>>), PlainLine(<<1024>>),
                    PlainLine(<<5120, 12288>>)>>),
     moe_transitional |-> Lines(<<PlainLine(<<5120>>), PlainLine(<<5120>>),
                    PlainLine(<<128>>), PlainLine(<<128>>)>>),
     moe_shared_ffn |-> Lines(<<PlainLine(<<160, 5120>>), PlainLine(<<160>>)>>),
     moe_experts |-> Lines(<<PlainLine(<<160, 1536, 5120>>),
                    PlainLine(<<160, 1536, 5120>>),
                    PlainLine(<<160, 5120, 1536>>)>>),
     experts_include_dim |-> TRUE]

\* The values the branch 'glm-5' of prefillParamModel stores
PresetGlm5 ==
    [dense_layers |-> <<"3">>,
     moe_layers |-> <<"7", "5">>,
     embedding_shapes |-> Lines(<<PlainLine(<<154880, 6144>>), PlainLine(<<6144, 154880>>)>>),
     pre_first_norms |-> Lines(<<PlainLine(<<6144>>)>>),
     dense_norms |-> Lines(<<PlainLine(<<6144>>), PlainLine(<<6144>>),
                    PlainLine(<<2048>>), PlainLine(<<512>>),
                    PlainLine(<<128>>), PlainLine(<<128>>)>>),
     dense_attn |-> Lines(<<PlainLine(<<2048, 6144>>), PlainLine(<<16384, 2048>>),
                    PlainLine(<<576, 6144>>), PlainLine(<<28672, 512>>),
                    PlainLine(<<6144, 16384>>), PlainLine(<<32, 6144>>),
                    PlainLine(<<128, 6144>>), PlainLine(<<4096, 2048>>)>>),
     dense_ffn |-> Lines(<<PlainLine(<<12288, 6144>>), PlainLine(<<12288, 6144>>),
                    PlainLine(<<6144, 12288>>)>>),
     experts_per_layer |-> <<"2", "5", "6">>,
     active_experts |-> <<"8">>,
     has_shared_expert |-> TRUE,
     shared_expert_scope |-> "per_layer",
     shared_expert_tensors |-> Lines(<<PlainLine(<<2048, 6144>>), PlainLine(<<2048, 6144>>),
                    PlainLine(<<6144, 2048>>)>>),
     moe_attn |-> Lines(<<PlainLine(<<2048, 6144>>), PlainLine(<<16384, 2048>>),
                    PlainLine(<<576, 6144>>), PlainLine(<<28672, 512>>),
                    PlainLine(<<6144, 16384>>), PlainLine(<<32, 6144>>),
                    PlainLine(<<128, 6144>>), PlainLine(<<4096, 2048>>)>>),
     moe_transitional |-> Lines(<<PlainLine(<<6144>>), PlainLine(<<6144>>),
                    PlainLine(<<2048>>), PlainLine(<<512>>),
                    PlainLine(<<128>>), PlainLine(<<128>>)>>),
     moe_shared_ffn |-> Lines(<<PlainLine(<<256, 6144>>), PlainLine(<<256>>)>>),
     moe_experts |-> Lines(<<PlainLine(<<256, 6144, 2048>>),
                    PlainLine(<<256, 2048, 6144>>),
                    PlainLine(<<256, 2048, 6144>>)>>),
     experts_include_dim |-> TRUE]

\* The values the branch 'deepseek-v3' of prefillParamModel stores
PresetDeepseekV3 ==
    [dense_layers |-> <<"3">>,
     moe_layers |-> <<"5", "8">>,
     embedding_shapes |-> Lines(<<PlainLine(<<129280, 7168>>), PlainLine(<<129280, 7168>>)>>),
     pre_first_norms |-> Lines(<<PlainLine(<<7168>>)>>),
     dense_norms |-> Lines(<<PlainLine(<<7168>>), PlainLine(<<7168>>)>>),
     dense_attn |-> Lines(<<PlainLine(<<512>>), PlainLine(<<576, 7168>>),
                    PlainLine(<<5, 56>>), PlainLine(<<32768, 512>>),
                    PlainLine(<<256, 4>>), PlainLine(<<7168, 16384>>),
                    PlainLine(<<56, 128>>), PlainLine(<<1536>>),
                    PlainLine(<<1536, 7168>>), PlainLine(<<12, 56>>),
                    PlainLine(<<24576, 1536>>), PlainLine(<<192, 12>>)>>),
     dense_ffn |-> Lines(<<PlainLine(<<7168, 18432>>), PlainLine(<<56, 144>>),
                    PlainLine(<<18432, 7168>>), PlainLine(<<144, 56>>),
                    PlainLine(<<18432, 7168>>), PlainLine(<<144, 56>>)>>),
     experts_per_layer |-> <<"2", "5", "6">>,
     active_experts |-> <<"8">>,
     has_shared_expert |-> TRUE,
     shared_expert_scope |-> "per_layer",
     shared_expert_tensors |-> Lines(<<PlainLine(<<7168, 2048>>), PlainLine(<<56, 16>>),
                    PlainLine(<<7168, 2048>>), PlainLine(<<56, 16>>),
                    PlainLine(<<7168, 2048>>), PlainLine(<<56, 16>>)>>),
     moe_attn |-> Lines(<<PlainLine(<<512>>), PlainLine(<<576, 7168>>),
                    PlainLine(<<5, 56>>), PlainLine(<<32768, 512>>),
                    PlainLine(<<256, 4>>), PlainLine(<<7168, 16384>>),
                    PlainLine(<<56, 128>>), PlainLine(<<1536>>),
                    PlainLine(<<1536, 7168>>), PlainLine(<<12, 56>>),
                    PlainLine(<<24576, 1536>>), PlainLine(<<192, 12>>)>>),
     moe_transitional |-> Lines(<<PlainLine(<<7168>>), PlainLine(<<7168>>)>>),
     moe_shared_ffn |-> Lines(<<PlainLine(<<256>>), PlainLine(<<256, 7168>>)>>),
     moe_experts |-> Lines(<<PlainLine(<<7168, 2048>>), PlainLine(<<56, 16>>),
                    PlainLine(<<2048, 7168>>), PlainLine(<<16, 56>>),
                    PlainLine(<<2048, 7168>>), PlainLine(<<16, 56>>)>>),
     experts_include_dim |-> FALSE]

\* The values the branch 'qwen3-235b' of prefillParamModel stores
PresetQwen3235b ==
    [dense_layers |-> <<"0">>,
     moe_layers |-> <<"9", "4">>,
     embedding_shapes |-> Lines(<<PlainLine(<<151936, 4096>>), PlainLine(<<151936, 4096>>)>>),
     pre_first_norms |-> Lines(<<PlainLine(<<4096>>)>>),
     dense_norms |-> <<>>,
     dense_attn |-> <<>>,
     dense_ffn |-> <<>>,
     experts_per_layer |-> <<"1", "2", "8">>,
     active_experts |-> <<"8">>,
     has_shared_expert |-> FALSE,
     shared_expert_scope |-> "per_layer",
     shared_expert_tensors |-> <<>>,
     moe_attn |-> Lines(<<PlainLine(<<8192, 4096>>), PlainLine(<<512, 4096>>),
                    PlainLine(<<512, 4096>>), PlainLine(<<4096, 8192>>)>>),
     moe_transitional |-> Lines(<<PlainLine(<<4096>>), PlainLine(<<4096>>),
                    PlainLine(<<128>>), PlainLine(<<128>>)>>),
     moe_shared_ffn |-> Lines(<<PlainLine(<<128, 4096>>)>>),
     moe_experts |-> Lines(<<PlainLine(<<128, 1536, 4096>>),
                    PlainLine(<<128, 1536, 4096>>),
                    PlainLine(<<128, 4096, 1536>>)>>),
     experts_include_dim |-> TRUE]

\* The values the branch 'deepseek-v3-mtp' of prefillParamModel stores
PresetDeepseekV3Mtp ==
    [moe_layers |-> <<"5", "9">>,
     embedding_shapes |-> Lines(<<PlainLine(<<129280, 7168>>), PlainLine(<<129280, 7168>>),
                    NarrowLine(<<129280, 7168>>),
                    NarrowLine(<<129280, 7168>>)>>),
     pre_first_norms |-> Lines(<<PlainLine(<<7168>>), NarrowLine(<<7168>>),
                    NarrowLine(<<7168>>), NarrowLine(<<7168, 14336>>),
                    NarrowLine(<<7168>>)>>)]

\* The branches of prefillParamModel that store a whole form
BasePresets ==
    [x \in {"kimi-k2", "glm-4.7", "glm-5", "deepseek-v3", "qwen3-235b"} |->
        CASE x = "kimi-k2" -> PresetKimiK2
          [] x = "glm-4.7" -> PresetGlm47
          [] x = "glm-5" -> PresetGlm5
          [] x = "deepseek-v3" -> PresetDeepseekV3
          [] x = "qwen3-235b" -> PresetQwen3235b]

\* prefillParamModel whose branch 'deepseek-v3-mtp' stops after the base
\* preset
prefillParamModel_MtpIsBase(pg, model) ==
    LET Fill(p, values) ==
            calculateAndRender(
                [p EXCEPT !.form = updateComputedTotalLayers(values @@ p.form)])
    IN  IF model \in DOMAIN BasePresets THEN Fill(pg, BasePresets[model])
        ELSE IF model = "deepseek-v3-mtp"
        THEN Fill(pg, BasePresets["deepseek-v3"])
        ELSE pg

\* prefillParamModel(model): the page after it ran
prefillParamModel(pg, model) ==
    LET Fill(p, values) ==
            calculateAndRender(
                [p EXCEPT !.form = updateComputedTotalLayers(values @@ p.form)])
    IN  IF model \in DOMAIN BasePresets THEN Fill(pg, BasePresets[model])
        ELSE IF model = "deepseek-v3-mtp"
        THEN Fill(Fill(pg, BasePresets["deepseek-v3"]), PresetDeepseekV3Mtp)
        ELSE pg

---------------------------------------------------------------------------
(* A session on the parameter form: the listeners the DOMContentLoaded     *)
(* handler of paramcalc.js installs, and the timers of its debounce.        *)

\* How many input, change and preset events a session has
MaxEvents == 3

\* The longest time that passes in one step (ms)
TickMs == 100

\* The controls the user types into and what is typed (a control takes any
\* text: a count field may hold "2x")
TypedInto ==
    [dense_layers     |-> {<<>>, <<"3">>, <<"2", "x">>},
     moe_layers       |-> {<<"0">>, <<"4">>},
     embedding_shapes |-> {<<>>, PlainLine(<<2, 3>>)}]

\* The options of the preset select ("" stands for an option that names no
\* preset)
PresetOptions ==
    {"custom", "kimi-k2", "glm-4.7", "glm-5", "deepseek-v3", "qwen3-235b",
     "deepseek-v3-mtp", ""}

\* A form as the page's markup may give it: every field blank, or counts
\* filled in
BlankForm ==
    [total_layers |-> <<>>, dense_layers |-> <<>>, moe_layers |-> <<>>,
     embedding_shapes |-> <<>>, pre_first_norms |-> <<>>, dense_norms |-> <<>>,
     dense_attn |-> <<>>, dense_ffn |-> <<>>, experts_per_layer |-> <<>>,
     active_experts |-> <<>>, has_shared_expert |-> FALSE,
     shared_expert_scope |-> "per_layer", shared_expert_tensors |-> <<>>,
     moe_attn |-> <<>>, moe_transitional |-> <<>>, moe_shared_ffn |-> <<>>,
     moe_experts |-> <<>>, experts_include_dim |-> FALSE]

MarkupForms ==
    {BlankForm,
     [BlankForm EXCEPT !.dense_layers = <<"1">>, !.moe_layers = <<"2">>,
                       !.total_layers = <<"0">>]}

\* No input or change event yet: nothing to wait for
Quiet == [since |-> DebounceMs, fires |-> 0, cancelled |-> FALSE, stale |-> FALSE]

\* An input or change event called debouncedCalc: a new burst of events, or
\* the current one goes on
Debounced(tm) ==
    [since |-> 0, fires |-> 0, cancelled |-> tm.pending # <<>>, stale |-> FALSE]

\* The state after the DOMContentLoaded handler: updateSharedState() and
\* updateComputedTotalLayers() ran, no listener has
InitForm ==
    /\ pc = "ready"
    /\ \E f \in MarkupForms :
          page = [form |-> updateComputedTotalLayers(f), shown |-> NothingShown]
    /\ timers = NoTimers
    /\ burst = Quiet
    /\ events = 0 /\ lastEvent = <<>>
    /\ NoShapes /\ NoCompute /\ NoSpeed

\* The listener of 'input' on a control of the form, after the user typed v
InputEvent ==
    \E el \in DOMAIN TypedInto :
      \E v \in TypedInto[el] :
        /\ events < MaxEvents
        /\ v # page.form[el]
        /\ LET typed == [page.form EXCEPT ![el] = v]
           IN  page' = [page EXCEPT !.form =
                           IF el \in {"dense_layers", "moe_layers"}
                           THEN updateComputedTotalLayers(typed) ELSE typed]
        /\ timers' = debouncedCalc(timers)
        /\ burst' = Debounced(timers)
        /\ events' = events + 1
        /\ lastEvent' = [kind |-> "input", value |-> el]
        /\ UNCHANGED <<pc, shapeVars, computeVars, speedVars>>

\* The listener of 'change' on a control of the form
ChangeEvent ==
    \E el \in DOMAIN TypedInto :
        /\ events < MaxEvents
        /\ page' = [page EXCEPT !.form =
                       IF el \in {"dense_layers", "moe_layers"}
                       THEN updateComputedTotalLayers(page.form) ELSE page.form]
        /\ timers' = debouncedCalc(timers)
        /\ burst' = Debounced(timers)
        /\ events' = events + 1
        /\ lastEvent' = [kind |-> "change", value |-> el]
        /\ UNCHANGED <<pc, shapeVars, computeVars, speedVars>>

\* The user ticks or unticks the shared-expert box: its 'input' listener, its
\* 'change' listener and the listener that calls updateSharedState()
SharedToggle ==
    /\ events < MaxEvents
    /\ page' = [page EXCEPT !.form.has_shared_expert = ~page.form.has_shared_expert]
    /\ timers' = debouncedCalc(debouncedCalc(debouncedCalc(timers)))
    /\ burst' = [Debounced(timers) EXCEPT !.cancelled = TRUE]
    /\ events' = events + 1
    /\ lastEvent' = [kind |-> "change", value |-> "has_shared_expert"]
    /\ UNCHANGED <<pc, shapeVars, computeVars, speedVars>>

\* The listener of 'submit' on the form
Submit ==
    /\ page' = calculateAndRender(page)
    /\ lastEvent' = [kind |-> "submit", value |-> ""]
    /\ UNCHANGED <<pc, shapeVars, computeVars, speedVars, events, timers, burst>>

\* The listener of 'click' on the Calculate button
Click ==
    /\ page' = calculateAndRender(page)
    /\ lastEvent' = [kind |-> "click", value |-> ""]
    /\ UNCHANGED <<pc, shapeVars, computeVars, speedVars, events, timers, burst>>

\* The listener of 'change' on the preset select.  Whether the select is a
\* control of the form, and so has the form's listeners too, is the markup's
\* choice.
PresetChange ==
    \E v \in PresetOptions, inForm \in BOOLEAN :
        /\ events < MaxEvents
        /\ page' = IF v = "custom" THEN page ELSE prefillParamModel(page, v)
        /\ timers' = IF inForm THEN debouncedCalc(debouncedCalc(timers)) ELSE timers
        /\ burst' = IF inForm THEN [Debounced(timers) EXCEPT !.cancelled = TRUE]
                    ELSE [burst EXCEPT !.stale = timers.pending # <<>>
                                                   /\ page'.form # page.form]
        /\ events' = events + 1
        /\ lastEvent' = [kind |-> "preset", value |-> v]
        /\ UNCHANGED <<pc, shapeVars, computeVars, speedVars>>

\* A timer is due: the function debounce passed to setTimeout runs
TimerFire ==
    /\ timers.pending # <<>>
    /\ Head(timers.pending) = 0
    /\ page' = calculateAndRender(page)
    /\ timers' = [pending |-> Tail(timers.pending),
                  t |-> IF timers.t <= 1 THEN 0 ELSE timers.t - 1]
    /\ burst' = [burst EXCEPT !.fires = IF @ < 2 THEN @ + 1 ELSE @]
    /\ lastEvent' = [kind |-> "timer", value |-> ""]
    /\ UNCHANGED <<pc, shapeVars, computeVars, speedVars, events>>

\* Time passes, not beyond the moment a timer is due
Tick ==
    /\ burst.since < DebounceMs
    /\ LET d == IF timers.pending = <<>> THEN TickMs
                ELSE IF Head(timers.pending) < TickMs THEN Head(timers.pending)
                ELSE TickMs
       IN  /\ d > 0
           /\ timers' = [timers EXCEPT !.pending =
                            [i \in 1..Len(timers.pending) |-> timers.pending[i] - d]]
           /\ burst' = [burst EXCEPT !.since =
                            IF @ + d < DebounceMs THEN @ + d ELSE DebounceMs]
    /\ UNCHANGED <<pc, shapeVars, computeVars, speedVars, events, lastEvent, page>>

NextForm ==
    \/ InputEvent \/ ChangeEvent \/ SharedToggle \/ Submit \/ Click
    \/ PresetChange \/ TimerFire \/ Tick

SpecForm == InitForm /\ [][NextForm]_vars

---------------------------------------------------------------------------
(* Claims about the parameter form's session                                *)

\* The fields computeResults reads
ReadFields == DOMAIN BlankForm \ {"total_layers"}

\* The value of field k of the form f as computeResults is given it: a blank
\* count is '0'
FieldValue(f, k) == IF k \in CountFields /\ f[k] = <<>> THEN <<"0">> ELSE f[k]

\* The boxes show the results of the values the fields hold now
Current ==
    /\ ~page.shown.hidden
    /\ \A k \in ReadFields : page.shown.input[k] = FieldValue(page.form, k)

\* The presets that store values
NamedPresets == DOMAIN BasePresets \cup {"deepseek-v3-mtp"}

\* The last listener that ran was one that runs calculateAndRender
RenderRan ==
    /\ lastEvent # <<>>
    /\ \/ lastEvent.kind \in {"submit", "click", "timer"}
       \/ lastEvent.kind = "preset" /\ lastEvent.value \in NamedPresets

\* C14: whenever calculateAndRender has run (from submit, click, a preset
\* prefill or a fired timer), the boxes show the results of the values the
\* fields hold at that moment, not of values held when the event was raised
\* or at an earlier run.
C14_ReadFresh == RenderRan => Current

\* C14 witness: a timer fired after a preset changed the fields it was set
\* to render, and the boxes show the preset's values
C14_Witness ==
    /\ RenderRan /\ lastEvent.kind = "timer"
    /\ burst.stale
    /\ Current

\* A step in which a timer fired
TimerFired == Len(timers'.pending) < Len(timers.pending)

\* A step in which a listener of 'input' or 'change' of the form ran
FormEvent == events' # events /\ lastEvent'.kind \in {"input", "change"}

\* C16: the debounced render runs only once 250 ms have passed since the
\* most recent input or change event; at most one timer is pending; every
\* such event replaces the pending timer by one of 250 ms; and a burst of
\* events produces one render, after its last event.
C16_Debounce ==
    /\ [](/\ Len(timers.pending) <= 1
          /\ burst.fires <= 1
          /\ timers.pending = <<>> => (burst.fires = 1 \/ burst = Quiet))
    /\ [][/\ TimerFired => burst.since >= DebounceMs /\ burst'.fires = 1
          /\ FormEvent => timers'.pending = <<DebounceMs>> /\ burst'.fires = 0]_vars

\* C16 witness: a burst in which an event cancelled the timer of the one
\* before has ended, and one render ran
C16_Witness ==
    /\ burst.cancelled /\ burst.fires = 1
    /\ timers.pending = <<>>
    /\ lastEvent.kind = "timer"

\* The session with its scheduling: time passes, and a timer that is due
\* fires
SpecFormLive == SpecForm /\ WF_vars(Tick) /\ WF_vars(TimerFire)

\* C17: after any finite sequence of events on the parameter form, once no
\* further event occurs a render eventually runs, and from then on the boxes
\* show the results of the current field values.
C17_LiveUpdates == <>[]Current

\* The field totalLayersComputed of computeResults(in)
totalLayersComputed(in) == Add(CountOf(in.dense_layers), CountOf(in.moe_layers))

\* total_layers shows B + C, the counts read as parseInt reads them and a
\* missing or non-numeric count taken as 0
ShowsBPlusC ==
    page.form.total_layers =
        StringOf(Add(OrZero(parseInt(page.form.dense_layers)),
                     OrZero(parseInt(page.form.moe_layers))))

FinalValues(v) ==
    IF v = "deepseek-v3-mtp" THEN PresetDeepseekV3Mtp @@ PresetDeepseekV3
    ELSE BasePresets[v]

\* A step in which the listener of the preset select ran
PresetStep == events' # events /\ lastEvent'.kind = "preset"

\* C21: selecting 'custom' in the preset select keeps every field value;
\* selecting a named preset ends with the fields holding that preset's final
\* values (for deepseek-v3-mtp those of deepseek-v3 with moe_layers 59 and
\* its own embedding and norm shapes) and with the boxes showing the results
\* of those values.
C21_PresetFrame ==
    [][PresetStep =>
         /\ lastEvent'.value = "custom" =>
               page'.form = page.form /\ page'.shown = page.shown
         /\ lastEvent'.value \in NamedPresets =>
               /\ \A k \in DOMAIN FinalValues(lastEvent'.value) :
                     page'.form[k] = FinalValues(lastEvent'.value)[k]
               /\ Current'
         /\ lastEvent'.value = "deepseek-v3-mtp" =>
               /\ page'.form.moe_layers = <<"5", "9">>
               /\ page'.form.dense_layers = PresetDeepseekV3.dense_layers
               /\ page'.shown.input.moe_layers = <<"5", "9">>]_vars

\* C21 witness: after the user typed into the form, deepseek-v3-mtp was
\* selected, and the fields and the boxes hold its values
C21_Witness ==
    /\ events >= 2
    /\ lastEvent.kind = "preset" /\ lastEvent.value = "deepseek-v3-mtp"
    /\ page.form.moe_layers = <<"5", "9">>
    /\ page.form.embedding_shapes = PresetDeepseekV3Mtp.embedding_shapes
    /\ Current

\* C22: after the DOMContentLoaded handler, before any listener has run,
\* total_layers is initialised and a first render has made the results and
\* the explanation visible, showing the results of the fields.
C22_FirstRender == lastEvent = <<>> => (ShowsBPlusC /\ Current)

---------------------------------------------------------------------------
(* Claims about the totals and shares of computeResults                     *)

\* computeResults has returned res (the explanation rendered or not)
Computed == pc \in {"done", "rendered"}

\* The counts and the sums of the shape texts are not negative
NonNegative(res) ==
    \A k \in {"denseLayers", "moeLayers", "expertsPer", "activeExperts",
              "embedCount", "preFirstCount", "dNorms", "dAttn", "dFfn", "mAttn",
              "mNormsTrans", "mSharedFfn", "mExpertsInput", "sharedExpertParams"} :
        Le(Zero, res[k])

C25_MlpAttnWithinTotal ==
    (Computed /\ NonNegative(r)) =>
        /\ Le(Add(r.totalMlp, r.totalAttn), r.totalParams)
        /\ r.sharedExpertTotal = Mul(r.moeLayers, r.sharedPerLayer)

===========================================================================
